---- MODULE Spec2Model ----
(***************************************************************************)
(* Model of the FFI bridge in src/src/flutter_onnxruntime_genai.cpp: the   *)
(* inference entry points, the chain of engine resources each one builds,  *)
(* the token generation loop, the teardown, and the two thread-local       *)
(* buffers (g_result_buffer, g_error_buffer).                              *)
(*                                                                         *)
(* A std::string is a sequence of atoms (string literals of the source,    *)
(* the engine's error message, text fragments); concatenation is \o.       *)
(* The engine (ort_genai_c.h) is the environment: every engine call draws  *)
(* its outcome nondeterministically.                                       *)
(***************************************************************************)
EXTENDS Integers, Sequences, FiniteSets, TLC

\* ------------------------------------------------------------------ bounds
\* Most tokens one generation loop produces before the generator is done.
MaxTokens == 2
\* Largest image_count a caller passes to the multi-image entry points.
MaxImages == 2
MaxShutdowns == 3

Threads == {"A", "B"}
\* The thread that makes the call in the sequential specification.
Caller == "A"

\* ------------------------------------------------------------ C values
nullptr == "nullptr"
EmptyStr == ""
ModelDir == "model_dir"
PromptText == "prompt"
ImageFile == "image.jpg"
\* The message OgaResultGetError yields for a failed engine operation.
EngineMsg == "engine message"
NoKind == "none"

strlen(s) == IF s = EmptyStr THEN 0 ELSE 1

\* The kinds of engine object one call can own (one of each at most).
Kinds == {"model", "processor", "tokenizer", "sequences", "image_path_array",
          "images", "named_tensors", "params", "generator", "stream", "config"}

RECURSIVE Reverse(_)
Reverse(s) == IF s = <<>> THEN <<>> ELSE Reverse(Tail(s)) \o <<Head(s)>>

RECURSIVE Flatten(_)
Flatten(ss) == IF ss = <<>> THEN <<>> ELSE Head(ss) \o Flatten(Tail(ss))

Range(s) == {s[i] : i \in 1..Len(s)}

VARIABLES
  pc,               \* per thread: "idle", "chain", "loop", "generate", "tokens",
                    \* "decode", "cleanup", "done"
  fn,               \* per thread: the entry point being executed
  args,             \* per thread: the arguments of the call
  ip,               \* per thread: index of the next step of the acquisition chain
  locals,           \* per thread: the local handle variables that are non-null
  generated_text,   \* per thread: std::string generated_text
  generated_count,  \* per thread: int generated_count
  g_result_buffer,  \* thread_local std::string g_result_buffer
  g_error_buffer,   \* thread_local std::string g_error_buffer
  ret,              \* per thread: what the call returned
  seen_error,       \* per thread: what get_last_error returned after the call
  configs,          \* the Configuration objects that exist in the engine
  log,              \* per thread: the engine operations of the call, in order
  abort_at,         \* per thread: index in log of the step that aborted the call
  prior_error,      \* per thread: g_error_buffer when the call was entered
  prior_result,     \* per thread: g_result_buffer when the call was entered
  g_init_mutex,     \* std::mutex g_init_mutex: "free" or the thread holding it
  g_initialized,    \* bool g_initialized
  g_debug_initialized, \* bool g_debug_initialized
  process_log,      \* the process-wide engine operations, in order
  return_pc,        \* per thread: where shutdown_onnx_genai returns to
  shutdown_calls    \* per thread: the calls of shutdown_onnx_genai made so far

vars == <<pc, fn, args, ip, locals, generated_text, generated_count,
          g_result_buffer, g_error_buffer, ret, seen_error, configs, log,
          abort_at, prior_error, prior_result, g_init_mutex, g_initialized,
          g_debug_initialized, process_log, return_pc, shutdown_calls>>

\* The state of one call, which the process-wide operations do not touch.
percall == <<fn, args, ip, locals, generated_text, generated_count,
             g_result_buffer, g_error_buffer, ret, seen_error, configs, log,
             abort_at, prior_error, prior_result>>

\* The process-wide state, which no step of a call's resource chain touches.
globals == <<g_init_mutex, g_initialized, g_debug_initialized, process_log,
             return_pc, shutdown_calls>>

\* ------------------------------------------------------- error channel
set_result_appending(buf, t, result) == [buf EXCEPT ![t] = @ \o result]

\* set_result: g_result_buffer = result; return g_result_buffer.c_str()
set_result(buf, t, result) == [buf EXCEPT ![t] = result]

set_error_shared(buf, t, error) == [u \in Threads |-> <<"ERROR: ">> \o error]

set_error_unprefixed(buf, t, error) == [buf EXCEPT ![t] = error]

\* set_error: g_error_buffer = "ERROR: " + error; return g_error_buffer.c_str()
set_error(buf, t, error) == [buf EXCEPT ![t] = <<"ERROR: ">> \o error]

\* check_oga_result: a result carrying a message overwrites g_error_buffer with
\* context + ": " + message and the check reports an error; otherwise the
\* buffer is left alone.
check_oga_result(buf, t, out, context) ==
  IF out = "err" THEN [buf EXCEPT ![t] = <<context, ": ", EngineMsg>>] ELSE buf

check_failed(out) == out = "err"

\* --------------------------------------------------- return values
NoRet == [kind |-> "none", str |-> <<>>, int |-> 0]
RetError(s) == [kind |-> "error", str |-> s, int |-> 0]
RetResult(s) == [kind |-> "result", str |-> s, int |-> 0]
RetInt(i) == [kind |-> "int", str |-> <<>>, int |-> i]

RetVoid == [kind |-> "void", str |-> <<>>, int |-> 0]

NotSeen == [valid |-> FALSE, str |-> <<>>]

\* --------------------------------------------------- chain step tables
\* A release in a cleanup sequence: unconditional, or guarded by `if (x)`.
D(k) == [res |-> k, guarded |-> FALSE]
G(k) == [res |-> k, guarded |-> TRUE]

\* An engine call that builds an object; the code tests
\* check_oga_result(result, ctx) || handle == nullptr.
Acq(op, ctx, makes, uses, opt, cleanup) ==
  [kind |-> "engine", op |-> op, ctx |-> ctx, makes |-> makes, uses |-> uses,
   opt |-> opt, nullcheck |-> TRUE, fatal |-> TRUE, bad |-> FALSE,
   cleanup |-> cleanup, how |-> "buffer", msg |-> "", code |-> 0,
   num |-> 0, result |-> "checked"]

\* An engine call that builds nothing; the code tests check_oga_result only.
Use(op, ctx, uses, cleanup) ==
  [kind |-> "engine", op |-> op, ctx |-> ctx, makes |-> NoKind, uses |-> uses,
   opt |-> {}, nullcheck |-> FALSE, fatal |-> TRUE, bad |-> FALSE,
   cleanup |-> cleanup, how |-> "buffer", msg |-> "", code |-> 0,
   num |-> 0, result |-> "checked"]

NonFatal_aborting(op, uses) ==
  [kind |-> "engine", op |-> op, ctx |-> "", makes |-> NoKind, uses |-> uses,
   opt |-> {}, nullcheck |-> FALSE, fatal |-> TRUE, bad |-> FALSE,
   cleanup |-> <<>>, how |-> "buffer", msg |-> "", code |-> 0,
   num |-> 0, result |-> "checked"]

\* An engine call whose failure the code does not act on.
NonFatal(op, uses) ==
  [kind |-> "engine", op |-> op, ctx |-> "", makes |-> NoKind, uses |-> uses,
   opt |-> {}, nullcheck |-> FALSE, fatal |-> FALSE, bad |-> FALSE,
   cleanup |-> <<>>, how |-> "buffer", msg |-> "", code |-> 0,
   num |-> 0, result |-> "destroyed"]

\* A test of an argument inside the chain that returns set_error(msg).
Check(op, bad, msg, cleanup) ==
  [kind |-> "check", op |-> op, ctx |-> msg, makes |-> NoKind, uses |-> {},
   opt |-> {}, nullcheck |-> FALSE, fatal |-> TRUE, bad |-> bad,
   cleanup |-> cleanup, how |-> "literal", msg |-> msg, code |-> 0,
   num |-> 0, result |-> "none"]

\* The number a step passes to the engine.
WithNumber(step, n) == [step EXCEPT !.num = n]

\* A step whose OgaResult the code never looks at: the call is a statement.
Dropped(step) == [step EXCEPT !.result = "dropped"]

\* 2048.0, the max_length the multimodal calls pass.
DefaultMaxLength == 2048

\* The same steps returning an integer code instead of set_error(...).
WithCode(step, c) == [step EXCEPT !.how = "code", !.code = c]

\* ------------------------------------------------ run_text_inference
run_text_inference_chain_nonzero(a) ==
  << Acq("OgaCreateModel", "Model creation failed", "model", {}, {}, <<>>),
     Acq("OgaCreateTokenizer", "Tokenizer creation failed", "tokenizer",
         {"model"}, {}, <<D("model")>>),
     Acq("OgaCreateSequences", "Sequences creation failed", "sequences",
         {}, {}, <<D("tokenizer"), D("model")>>),
     Use("OgaTokenizerEncode", "Tokenization failed",
         {"tokenizer", "sequences"},
         <<D("sequences"), D("tokenizer"), D("model")>>),
     Acq("OgaCreateGeneratorParams", "Generator params creation failed",
         "params", {"model"}, {},
         <<D("sequences"), D("tokenizer"), D("model")>>) >>
  \o (IF a.max_length # 0
      THEN <<Dropped(WithNumber(
               NonFatal("OgaGeneratorParamsSetSearchNumber", {"params"}),
               a.max_length))>>
      ELSE <<>>)
  \o
  << Acq("OgaCreateGenerator", "Generator creation failed", "generator",
         {"model", "params"}, {},
         <<D("params"), D("sequences"), D("tokenizer"), D("model")>>),
     Use("OgaGenerator_AppendTokenSequences", "Setting input sequences failed",
         {"generator", "sequences"},
         <<D("generator"), D("params"), D("sequences"), D("tokenizer"),
           D("model")>>),
     Acq("OgaCreateTokenizerStream", "Tokenizer stream creation failed",
         "stream", {"tokenizer"}, {},
         <<D("generator"), D("params"), D("sequences"), D("tokenizer"),
           D("model")>>) >>

run_text_inference_chain_params_first(a) ==
  << Acq("OgaCreateModel", "Model creation failed", "model", {}, {}, <<>>),
     Acq("OgaCreateTokenizer", "Tokenizer creation failed", "tokenizer",
         {"model"}, {}, <<D("model")>>),
     Acq("OgaCreateGeneratorParams", "Generator params creation failed",
         "params", {"model"}, {}, <<D("tokenizer"), D("model")>>) >>
  \o (IF a.max_length > 0
      THEN <<Dropped(WithNumber(
               NonFatal("OgaGeneratorParamsSetSearchNumber", {"params"}),
               a.max_length))>>
      ELSE <<>>)
  \o
  << Acq("OgaCreateSequences", "Sequences creation failed", "sequences",
         {}, {}, <<D("params"), D("tokenizer"), D("model")>>),
     Use("OgaTokenizerEncode", "Tokenization failed",
         {"tokenizer", "sequences"},
         <<D("sequences"), D("params"), D("tokenizer"), D("model")>>),
     Acq("OgaCreateGenerator", "Generator creation failed", "generator",
         {"model", "params"}, {},
         <<D("sequences"), D("params"), D("tokenizer"), D("model")>>),
     Use("OgaGenerator_AppendTokenSequences", "Setting input sequences failed",
         {"generator", "sequences"},
         <<D("generator"), D("sequences"), D("params"), D("tokenizer"),
           D("model")>>),
     Acq("OgaCreateTokenizerStream", "Tokenizer stream creation failed",
         "stream", {"tokenizer"}, {},
         <<D("generator"), D("sequences"), D("params"), D("tokenizer"),
           D("model")>>) >>

run_text_inference_chain(a) ==
  << Acq("OgaCreateModel", "Model creation failed", "model", {}, {}, <<>>),
     Acq("OgaCreateTokenizer", "Tokenizer creation failed", "tokenizer",
         {"model"}, {}, <<D("model")>>),
     Acq("OgaCreateSequences", "Sequences creation failed", "sequences",
         {}, {}, <<D("tokenizer"), D("model")>>),
     Use("OgaTokenizerEncode", "Tokenization failed",
         {"tokenizer", "sequences"},
         <<D("sequences"), D("tokenizer"), D("model")>>),
     Acq("OgaCreateGeneratorParams", "Generator params creation failed",
         "params", {"model"}, {},
         <<D("sequences"), D("tokenizer"), D("model")>>) >>
  \o (IF a.max_length > 0
      THEN <<Dropped(WithNumber(
               NonFatal("OgaGeneratorParamsSetSearchNumber", {"params"}),
               a.max_length))>>
      ELSE <<>>)
  \o
  << Acq("OgaCreateGenerator", "Generator creation failed", "generator",
         {"model", "params"}, {},
         <<D("params"), D("sequences"), D("tokenizer"), D("model")>>),
     Use("OgaGenerator_AppendTokenSequences", "Setting input sequences failed",
         {"generator", "sequences"},
         <<D("generator"), D("params"), D("sequences"), D("tokenizer"),
           D("model")>>),
     Acq("OgaCreateTokenizerStream", "Tokenizer stream creation failed",
         "stream", {"tokenizer"}, {},
         <<D("generator"), D("params"), D("sequences"), D("tokenizer"),
           D("model")>>) >>

run_text_inference_teardown_model_first ==
  <<D("stream"), D("generator"), D("params"), D("sequences"), D("model"),
    D("tokenizer")>>

run_text_inference_teardown ==
  <<D("stream"), D("generator"), D("params"), D("sequences"), D("tokenizer"),
    D("model")>>

\* ----------------------------------------------------- run_inference
HasImage_nonnull(a) == a.image_path # nullptr

HasImage(a) == a.image_path # nullptr /\ strlen(a.image_path) > 0

run_inference_chain_unchecked_inputs(a) ==
  << Acq("OgaCreateModel", "Model creation failed", "model", {}, {}, <<>>),
     Acq("OgaCreateMultiModalProcessor", "MultiModal processor creation failed",
         "processor", {"model"}, {}, <<D("model")>>),
     Acq("OgaCreateTokenizer", "Tokenizer creation failed", "tokenizer",
         {"model"}, {}, <<D("processor"), D("model")>>) >>
  \o (IF HasImage(a)
      THEN <<Acq("OgaLoadImage", "Image loading failed", "images", {}, {},
                 <<D("tokenizer"), D("processor"), D("model")>>)>>
      ELSE <<>>)
  \o
  << Acq("OgaProcessorProcessImages", "Multimodal processing failed",
         "named_tensors", {"processor"}, {"images"},
         <<G("images"), D("tokenizer"), D("processor"), D("model")>>),
     Acq("OgaCreateGeneratorParams", "Generator params creation failed",
         "params", {"model"}, {},
         <<G("named_tensors"), G("images"), D("tokenizer"), D("processor"),
           D("model")>>),
     WithNumber(NonFatal("OgaGeneratorParamsSetSearchNumber", {"params"}),
                DefaultMaxLength),
     Acq("OgaCreateGenerator", "Generator creation failed", "generator",
         {"model", "params"}, {},
         <<D("params"), G("named_tensors"), G("images"), D("tokenizer"),
           D("processor"), D("model")>>),
     NonFatal("OgaGenerator_SetInputs", {"generator", "named_tensors"}),
     Acq("OgaCreateTokenizerStream", "Tokenizer stream creation failed",
         "stream", {"tokenizer"}, {},
         <<D("generator"), D("params"), G("named_tensors"), G("images"),
           D("tokenizer"), D("processor"), D("model")>>) >>

run_inference_chain(a) ==
  << Acq("OgaCreateModel", "Model creation failed", "model", {}, {}, <<>>),
     Acq("OgaCreateMultiModalProcessor", "MultiModal processor creation failed",
         "processor", {"model"}, {}, <<D("model")>>),
     Acq("OgaCreateTokenizer", "Tokenizer creation failed", "tokenizer",
         {"model"}, {}, <<D("processor"), D("model")>>) >>
  \o (IF HasImage(a)
      THEN <<Acq("OgaLoadImage", "Image loading failed", "images", {}, {},
                 <<D("tokenizer"), D("processor"), D("model")>>)>>
      ELSE <<>>)
  \o
  << Acq("OgaProcessorProcessImages", "Multimodal processing failed",
         "named_tensors", {"processor"}, {"images"},
         <<G("images"), D("tokenizer"), D("processor"), D("model")>>),
     Acq("OgaCreateGeneratorParams", "Generator params creation failed",
         "params", {"model"}, {},
         <<G("named_tensors"), G("images"), D("tokenizer"), D("processor"),
           D("model")>>),
     WithNumber(NonFatal("OgaGeneratorParamsSetSearchNumber", {"params"}),
                DefaultMaxLength),
     Acq("OgaCreateGenerator", "Generator creation failed", "generator",
         {"model", "params"}, {},
         <<D("params"), G("named_tensors"), G("images"), D("tokenizer"),
           D("processor"), D("model")>>),
     Use("OgaGenerator_SetInputs", "Setting input tensors failed",
         {"generator", "named_tensors"},
         <<D("generator"), D("params"), D("named_tensors"), G("images"),
           D("tokenizer"), D("processor"), D("model")>>),
     Acq("OgaCreateTokenizerStream", "Tokenizer stream creation failed",
         "stream", {"tokenizer"}, {},
         <<D("generator"), D("params"), G("named_tensors"), G("images"),
           D("tokenizer"), D("processor"), D("model")>>) >>

run_inference_teardown_twice ==
  <<D("stream"), D("generator"), D("params"), G("named_tensors"), G("images"),
    D("tokenizer"), D("processor"), D("model"), D("model")>>

run_inference_teardown ==
  <<D("stream"), D("generator"), D("params"), G("named_tensors"), G("images"),
    D("tokenizer"), D("processor"), D("model")>>

\* ----------------------------------------------- run_inference_multi
run_inference_multi_chain_tokenizing(a) ==
  << Acq("OgaCreateModel", "Model creation failed", "model", {}, {}, <<>>),
     Acq("OgaCreateMultiModalProcessor", "MultiModal processor creation failed",
         "processor", {"model"}, {}, <<D("model")>>),
     Acq("OgaCreateTokenizer", "Tokenizer creation failed", "tokenizer",
         {"model"}, {}, <<D("processor"), D("model")>>),
     Acq("OgaCreateSequences", "Sequences creation failed", "sequences",
         {}, {}, <<D("tokenizer"), D("processor"), D("model")>>),
     Use("OgaTokenizerEncode", "Tokenization failed",
         {"tokenizer", "sequences"},
         <<D("sequences"), D("tokenizer"), D("processor"), D("model")>>) >>
  \o (IF a.image_count > 0
      THEN << Acq("OgaCreateStringArrayFromStrings",
                  "String array creation failed", "image_path_array", {}, {},
                  <<D("tokenizer"), D("processor"), D("model")>>),
              Acq("OgaLoadImages", "Image loading failed", "images",
                  {"image_path_array"}, {},
                  <<D("image_path_array"), D("tokenizer"), D("processor"),
                    D("model")>>) >>
      ELSE <<>>)
  \o
  << Acq("OgaProcessorProcessImages", "Multimodal processing failed",
         "named_tensors", {"processor"}, {"images"},
         <<G("images"), G("image_path_array"), D("tokenizer"), D("processor"),
           D("model")>>),
     Acq("OgaCreateGeneratorParams", "Generator params creation failed",
         "params", {"model"}, {},
         <<G("named_tensors"), G("images"), G("image_path_array"),
           D("tokenizer"), D("processor"), D("model")>>),
     WithNumber(NonFatal("OgaGeneratorParamsSetSearchNumber", {"params"}),
                DefaultMaxLength),
     Acq("OgaCreateGenerator", "Generator creation failed", "generator",
         {"model", "params"}, {},
         <<D("params"), G("named_tensors"), G("images"), G("image_path_array"),
           D("tokenizer"), D("processor"), D("model")>>),
     Use("OgaGenerator_SetInputs", "Setting input tensors failed",
         {"generator", "named_tensors"},
         <<D("generator"), D("params"), D("named_tensors"), G("images"),
           G("image_path_array"), D("tokenizer"), D("processor"), D("model")>>),
     Acq("OgaCreateTokenizerStream", "Tokenizer stream creation failed",
         "stream", {"tokenizer"}, {},
         <<D("generator"), D("params"), G("named_tensors"), G("images"),
           G("image_path_array"), D("tokenizer"), D("processor"),
           D("model")>>) >>

run_inference_multi_chain(a) ==
  << Acq("OgaCreateModel", "Model creation failed", "model", {}, {}, <<>>),
     Acq("OgaCreateMultiModalProcessor", "MultiModal processor creation failed",
         "processor", {"model"}, {}, <<D("model")>>),
     Acq("OgaCreateTokenizer", "Tokenizer creation failed", "tokenizer",
         {"model"}, {}, <<D("processor"), D("model")>>) >>
  \o (IF a.image_count > 0
      THEN << Acq("OgaCreateStringArrayFromStrings",
                  "String array creation failed", "image_path_array", {}, {},
                  <<D("tokenizer"), D("processor"), D("model")>>),
              Acq("OgaLoadImages", "Image loading failed", "images",
                  {"image_path_array"}, {},
                  <<D("image_path_array"), D("tokenizer"), D("processor"),
                    D("model")>>) >>
      ELSE <<>>)
  \o
  << Acq("OgaProcessorProcessImages", "Multimodal processing failed",
         "named_tensors", {"processor"}, {"images"},
         <<G("images"), G("image_path_array"), D("tokenizer"), D("processor"),
           D("model")>>),
     Acq("OgaCreateGeneratorParams", "Generator params creation failed",
         "params", {"model"}, {},
         <<G("named_tensors"), G("images"), G("image_path_array"),
           D("tokenizer"), D("processor"), D("model")>>),
     WithNumber(NonFatal("OgaGeneratorParamsSetSearchNumber", {"params"}),
                DefaultMaxLength),
     Acq("OgaCreateGenerator", "Generator creation failed", "generator",
         {"model", "params"}, {},
         <<D("params"), G("named_tensors"), G("images"), G("image_path_array"),
           D("tokenizer"), D("processor"), D("model")>>),
     Use("OgaGenerator_SetInputs", "Setting input tensors failed",
         {"generator", "named_tensors"},
         <<D("generator"), D("params"), D("named_tensors"), G("images"),
           G("image_path_array"), D("tokenizer"), D("processor"), D("model")>>),
     Acq("OgaCreateTokenizerStream", "Tokenizer stream creation failed",
         "stream", {"tokenizer"}, {},
         <<D("generator"), D("params"), G("named_tensors"), G("images"),
           G("image_path_array"), D("tokenizer"), D("processor"),
           D("model")>>) >>

run_inference_multi_teardown ==
  <<D("stream"), D("generator"), D("params"), G("named_tensors"), G("images"),
    G("image_path_array"), D("tokenizer"), D("processor"), D("model")>>

\* ----------------------------------------- run_inference_with_config
run_inference_with_config_chain(a) ==
  << Acq("OgaCreateModelFromConfig", "Model creation from config failed",
         "model", {}, {}, <<>>),
     Acq("OgaCreateMultiModalProcessor", "MultiModal processor creation failed",
         "processor", {"model"}, {}, <<D("model")>>),
     Acq("OgaCreateTokenizer", "Tokenizer creation failed", "tokenizer",
         {"model"}, {}, <<D("processor"), D("model")>>) >>
  \o (IF HasImage(a)
      THEN <<Acq("OgaLoadImage", "Image loading failed", "images", {}, {},
                 <<D("tokenizer"), D("processor"), D("model")>>)>>
      ELSE <<>>)
  \o
  << Acq("OgaProcessorProcessImages", "Multimodal processing failed",
         "named_tensors", {"processor"}, {"images"},
         <<G("images"), D("tokenizer"), D("processor"), D("model")>>),
     Acq("OgaCreateGeneratorParams", "Generator params creation failed",
         "params", {"model"}, {},
         <<G("named_tensors"), G("images"), D("tokenizer"), D("processor"),
           D("model")>>),
     WithNumber(NonFatal("OgaGeneratorParamsSetSearchNumber", {"params"}),
                DefaultMaxLength),
     Acq("OgaCreateGenerator", "Generator creation failed", "generator",
         {"model", "params"}, {},
         <<D("params"), G("named_tensors"), G("images"), D("tokenizer"),
           D("processor"), D("model")>>),
     Use("OgaGenerator_SetInputs", "Setting input tensors failed",
         {"generator", "named_tensors"},
         <<D("generator"), D("params"), G("named_tensors"), G("images"),
           D("tokenizer"), D("processor"), D("model")>>),
     Acq("OgaCreateTokenizerStream", "Tokenizer stream creation failed",
         "stream", {"tokenizer"}, {},
         <<D("generator"), D("params"), G("named_tensors"), G("images"),
           D("tokenizer"), D("processor"), D("model")>>) >>

run_inference_with_config_teardown_config ==
  <<D("stream"), D("generator"), D("params"), G("named_tensors"), G("images"),
    D("tokenizer"), D("processor"), D("model"), D("config")>>

run_inference_with_config_teardown ==
  <<D("stream"), D("generator"), D("params"), G("named_tensors"), G("images"),
    D("tokenizer"), D("processor"), D("model")>>

\* ----------------------------------- run_inference_multi_with_config
AddPaths_ignoring_failures(a) ==
  Flatten([i \in 1..a.image_count |->
    << Check("image_paths[i] == nullptr", a.image_paths.at[i] = nullptr,
             "NULL image path in array",
             <<D("image_path_array"), D("tokenizer"), D("processor"),
               D("model")>>),
       NonFatal("OgaStringArrayAddString", {"image_path_array"}) >>])

\* for (i = 0; i < image_count; i++): the NULL test of image_paths[i], then
\* OgaStringArrayAddString.
AddPaths(a) ==
  Flatten([i \in 1..a.image_count |->
    << Check("image_paths[i] == nullptr", a.image_paths.at[i] = nullptr,
             "NULL image path in array",
             <<D("image_path_array"), D("tokenizer"), D("processor"),
               D("model")>>),
       Use("OgaStringArrayAddString", "Add image path failed",
           {"image_path_array"},
           <<D("image_path_array"), D("tokenizer"), D("processor"),
             D("model")>>) >>])

run_inference_multi_with_config_chain(a) ==
  << Acq("OgaCreateModelFromConfig", "Model creation from config failed",
         "model", {}, {}, <<>>),
     Acq("OgaCreateMultiModalProcessor", "MultiModal processor creation failed",
         "processor", {"model"}, {}, <<D("model")>>),
     Acq("OgaCreateTokenizer", "Tokenizer creation failed", "tokenizer",
         {"model"}, {}, <<D("processor"), D("model")>>) >>
  \o (IF a.image_count > 0
      THEN << Acq("OgaCreateStringArray", "String array creation failed",
                  "image_path_array", {}, {},
                  <<D("tokenizer"), D("processor"), D("model")>>) >>
           \o AddPaths(a) \o
           << Acq("OgaLoadImages", "Image loading failed", "images",
                  {"image_path_array"}, {},
                  <<D("image_path_array"), D("tokenizer"), D("processor"),
                    D("model")>>) >>
      ELSE <<>>)
  \o
  << Acq("OgaProcessorProcessImages", "Processing failed",
         "named_tensors", {"processor"}, {"images"},
         <<G("images"), G("image_path_array"), D("tokenizer"), D("processor"),
           D("model")>>),
     Acq("OgaCreateGeneratorParams", "Generator params creation failed",
         "params", {"model"}, {},
         <<D("named_tensors"), G("images"), G("image_path_array"),
           D("tokenizer"), D("processor"), D("model")>>),
     Acq("OgaCreateGenerator", "Generator creation failed", "generator",
         {"model", "params"}, {},
         <<D("params"), D("named_tensors"), G("images"), G("image_path_array"),
           D("tokenizer"), D("processor"), D("model")>>),
     Use("OgaGenerator_SetInputs", "Setting input tensors failed",
         {"generator", "named_tensors"},
         <<D("generator"), D("params"), D("named_tensors"), G("images"),
           G("image_path_array"), D("tokenizer"), D("processor"), D("model")>>),
     Acq("OgaCreateTokenizerStream", "Tokenizer stream creation failed",
         "stream", {"tokenizer"}, {},
         <<D("generator"), D("params"), D("named_tensors"), G("images"),
           G("image_path_array"), D("tokenizer"), D("processor"),
           D("model")>>) >>

run_inference_multi_with_config_teardown ==
  <<D("stream"), D("generator"), D("params"), D("named_tensors"), G("images"),
    G("image_path_array"), D("tokenizer"), D("processor"), D("model")>>

\* ----------------------------------------------- check_native_health
check_native_health_chain(a) ==
  << WithCode(Acq("OgaCreateModel", "Model creation failed", "model", {}, {},
                  <<>>), -2),
     WithCode(Acq("OgaCreateTokenizer", "Tokenizer creation failed",
                  "tokenizer", {"model"}, {}, <<D("model")>>), -3) >>

check_native_health_teardown_model_first == <<D("model"), D("tokenizer")>>

check_native_health_teardown == <<D("tokenizer"), D("model")>>

\* ----------------------------------------------------- create_config
create_config_chain_minus_one(a) ==
  << WithCode(Acq("OgaCreateConfig", "Config creation failed", "config", {},
                  {}, <<>>), -1) >>

create_config_chain(a) ==
  << WithCode(Acq("OgaCreateConfig", "Config creation failed", "config", {},
                  {}, <<>>), 0) >>

\* ------------------------------------------------------ dispatch
InferenceFns == {"run_text_inference", "run_inference", "run_inference_multi",
                 "run_inference_with_config",
                 "run_inference_multi_with_config"}

Chain(f, a) ==
  CASE f = "run_text_inference" -> run_text_inference_chain(a)
    [] f = "run_inference" -> run_inference_chain(a)
    [] f = "run_inference_multi" -> run_inference_multi_chain(a)
    [] f = "run_inference_with_config" -> run_inference_with_config_chain(a)
    [] f = "run_inference_multi_with_config" ->
         run_inference_multi_with_config_chain(a)
    [] f = "check_native_health" -> check_native_health_chain(a)
    [] f = "create_config" -> create_config_chain(a)

Teardown(f) ==
  CASE f = "run_text_inference" -> run_text_inference_teardown
    [] f = "run_inference" -> run_inference_teardown
    [] f = "run_inference_multi" -> run_inference_multi_teardown
    [] f = "run_inference_with_config" -> run_inference_with_config_teardown
    [] f = "run_inference_multi_with_config" ->
         run_inference_multi_with_config_teardown
    [] f = "check_native_health" -> check_native_health_teardown
    [] f = "create_config" -> <<>>

AfterChain(f) == IF f \in InferenceFns THEN "loop" ELSE "cleanup"

\* --------------------------------------------------------- arguments
NoPaths == [null |-> TRUE, at |-> <<>>]
Paths(seq) == [null |-> FALSE, at |-> seq]

Arg(path, prompt, maxlen, image, paths, count, handle) ==
  [model_path |-> path, prompt |-> prompt, max_length |-> maxlen,
   image_path |-> image, image_paths |-> paths, image_count |-> count,
   config_handle |-> handle]

NoArgs == Arg(nullptr, nullptr, 0, nullptr, NoPaths, 0, 0)

\* The arguments of the configuration calls.
CfgArg(handle, provider, key, value) ==
  [config_handle |-> handle, provider_name |-> provider, key |-> key,
   value |-> value] @@ NoArgs

ProviderNames == {"XNNPACK", nullptr, EmptyStr}
OptionKeys == {"intra_op_num_threads", nullptr}
OptionValues == {"4", nullptr}

\* Callers deviate from the plain call in at most one argument.
Odd(b) == IF b THEN 1 ELSE 0

\* Path and prompt: both given, or one of them NULL or empty.
PathPrompt ==
  { <<ModelDir, PromptText>>, <<nullptr, PromptText>>, <<ModelDir, nullptr>>,
    <<EmptyStr, PromptText>>, <<ModelDir, EmptyStr>> }

\* Arrays of n image paths with at most one NULL entry.
PathArrays(n) ==
  { s \in [1..n -> {ImageFile, nullptr}] :
      Cardinality({i \in 1..n : s[i] = nullptr}) <= 1 }

\* image_paths and image_count: no images (count zero or negative), n paths,
\* or a NULL array with a positive count.
ImageLists ==
  { <<NoPaths, 0>>, <<NoPaths, -1>>, <<Paths(<<>>), 0>>, <<NoPaths, 1>> }
  \cup UNION { { <<Paths(s), n>> : s \in PathArrays(n) } : n \in 1..MaxImages }

\* The live Configuration a caller holds when the model starts, and handle 0.
LiveConfig == 1
Handles == {0, LiveConfig}

\* ------------------------------------------------------ the log
Ev(op, out, made, used, freed, text) ==
  [op |-> op, out |-> out, made |-> made, used |-> used, freed |-> freed,
   text |-> text, num |-> 0,
   result |-> IF out = "err" THEN "released" ELSE "none"]

ReleasesUnguardedOnly(cleanup, loc) ==
  LET kept == SelectSeq(cleanup, LAMBDA c : ~c.guarded)
  IN [i \in 1..Len(kept) |->
        Ev("OgaDestroy", "ok", {}, {}, {kept[i].res}, <<>>)]

\* The releases a cleanup sequence performs, given the non-null locals.
Releases(cleanup, loc) ==
  LET kept == SelectSeq(cleanup, LAMBDA c : ~c.guarded \/ c.res \in loc)
  IN [i \in 1..Len(kept) |->
        Ev("OgaDestroy", "ok", {}, {}, {kept[i].res}, <<>>)]

\* The handles an engine call is given: the required ones, and the optional
\* ones that are non-null.
UsedBy(s, loc) == s.uses \cup (s.opt \cap loc)

\* The outcomes the engine can produce for a step: success, a result carrying
\* an error message, or (for a call that builds an object) no result and no
\* object.
Outcomes(s) ==
  IF s.kind = "check" THEN (IF s.bad THEN {"bad"} ELSE {"ok"})
  ELSE {"ok", "err"} \cup (IF s.makes # NoKind THEN {"null"} ELSE {})

\* The condition of the `if` after the step.
StepFailed(s, out) ==
  /\ s.fatal
  /\ \/ s.kind = "check" /\ out = "bad"
     \/ s.kind = "engine" /\ check_failed(out)
     \/ s.kind = "engine" /\ s.nullcheck /\ out # "ok"

NewHandle ==
  CHOOSE h \in 1..(Cardinality(DOMAIN configs) + 1) : h \notin DOMAIN configs

\* A Configuration as OgaCreateConfig builds it from the model directory: the
\* providers the model's own configuration lists, and no option set yet.
NewConfig == [providers |-> <<"cpu">>, options |-> {}]

\* The Configurations that remain after a cleanup: OgaDestroyConfig, were it
\* among the releases, would end the one the call was given.
AfterReleases(cfgs, rel, h) ==
  IF \E i \in 1..Len(rel) : "config" \in rel[i].freed
  THEN [x \in DOMAIN cfgs \ {h} |-> cfgs[x]]
  ELSE cfgs

\* ---------------------------------------------------- entering a call
\* The entry points whose first statement is init_debug_features().
DebugFns == {"check_native_health", "run_inference", "run_inference_multi",
             "create_config", "run_inference_with_config",
             "run_inference_multi_with_config"}

\* if (!g_debug_initialized): the test that opens init_debug_features(),
\* made by a thread entering one of DebugFns. No lock is taken.
init_debug_features(t) ==
  /\ pc[t] = "idle"
  /\ pc' = [pc EXCEPT ![t] =
              IF ~g_debug_initialized THEN "debug_setup" ELSE "entered"]
  /\ UNCHANGED <<percall, globals>>

\* g_debug_initialized = true; install_signal_handlers();
\* OgaSetLogBool("enabled", true); OgaSetLogCallback(oga_log_callback);
install_signal_handlers(t) ==
  /\ pc[t] = "debug_setup"
  /\ g_debug_initialized' = TRUE
  /\ process_log' = process_log \o
       << [op |-> "install_signal_handlers", thread |-> t],
          [op |-> "OgaSetLogBool", thread |-> t],
          [op |-> "OgaSetLogCallback", thread |-> t] >>
  /\ pc' = [pc EXCEPT ![t] = "entered"]
  /\ UNCHANGED <<percall, g_init_mutex, g_initialized, return_pc,
                 shutdown_calls>>

Enter(t, f, a) ==
  /\ pc[t] = IF f \in DebugFns THEN "entered" ELSE "idle"
  /\ fn' = [fn EXCEPT ![t] = f]
  /\ args' = [args EXCEPT ![t] = a]
  /\ ip' = [ip EXCEPT ![t] = 1]
  /\ locals' = [locals EXCEPT ![t] = {}]
  /\ generated_text' = [generated_text EXCEPT ![t] = <<>>]
  /\ generated_count' = [generated_count EXCEPT ![t] = 0]
  /\ log' = [log EXCEPT ![t] = <<>>]
  /\ abort_at' = [abort_at EXCEPT ![t] = 0]
  /\ prior_error' = [prior_error EXCEPT ![t] = g_error_buffer[t]]
  /\ prior_result' = [prior_result EXCEPT ![t] = g_result_buffer[t]]
  /\ seen_error' = [seen_error EXCEPT ![t] = NotSeen]
  /\ UNCHANGED <<g_result_buffer, globals>>

\* The arguments pass validation: go on to the first step of the chain.
Proceed(t) ==
  /\ pc' = [pc EXCEPT ![t] = "chain"]
  /\ ret' = [ret EXCEPT ![t] = NoRet]
  /\ UNCHANGED <<g_error_buffer, configs>>

\* return set_error("literal")
RejectError(t, literal) ==
  /\ pc' = [pc EXCEPT ![t] = "done"]
  /\ g_error_buffer' = set_error(g_error_buffer, t, <<literal>>)
  /\ ret' = [ret EXCEPT ![t] = RetError(g_error_buffer'[t])]
  /\ UNCHANGED configs

\* return code (the error buffer is not written)
RejectCode(t, code) ==
  /\ pc' = [pc EXCEPT ![t] = "done"]
  /\ ret' = [ret EXCEPT ![t] = RetInt(code)]
  /\ UNCHANGED <<g_error_buffer, configs>>

run_text_inference(t) ==
  \E pp \in PathPrompt, ml \in {-1, 0, 16} :
    LET a == Arg(pp[1], pp[2], ml, nullptr, NoPaths, 0, 0) IN
    /\ pp = <<ModelDir, PromptText>> \/ ml = 0
    /\ Enter(t, "run_text_inference", a)
    /\ IF a.model_path = nullptr \/ a.prompt = nullptr
       THEN RejectError(t, "NULL model_path or prompt provided")
       ELSE Proceed(t)

run_inference(t) ==
  \E pp \in PathPrompt, img \in {nullptr, EmptyStr, ImageFile} :
    LET a == Arg(pp[1], pp[2], 0, img, NoPaths, 0, 0) IN
    /\ pp = <<ModelDir, PromptText>> \/ img = nullptr
    /\ Enter(t, "run_inference", a)
    /\ IF a.model_path = nullptr \/ a.prompt = nullptr
       THEN RejectError(t, "NULL model_path or prompt provided")
       ELSE Proceed(t)

run_inference_multi(t) ==
  \E pp \in PathPrompt, il \in ImageLists :
    LET a == Arg(pp[1], pp[2], 0, nullptr, il[1], il[2], 0) IN
    /\ pp = <<ModelDir, PromptText>> \/ il = <<NoPaths, 0>>
    /\ Enter(t, "run_inference_multi", a)
    /\ IF a.model_path = nullptr \/ a.prompt = nullptr
       THEN RejectError(t, "NULL model_path or prompt provided")
       ELSE IF a.image_count > 0 /\ a.image_paths.null
       THEN RejectError(t, "image_paths is NULL but image_count > 0")
       ELSE Proceed(t)

run_inference_with_config(t) ==
  \E h \in Handles, q \in {PromptText, nullptr, EmptyStr},
     img \in {nullptr, EmptyStr, ImageFile} :
    LET a == Arg(nullptr, q, 0, img, NoPaths, 0, h) IN
    /\ Odd(h = 0) + Odd(q # PromptText) + Odd(img # nullptr) <= 1
    /\ Enter(t, "run_inference_with_config", a)
    /\ IF a.config_handle = 0
       THEN RejectError(t, "NULL config handle")
       ELSE IF a.prompt = nullptr
       THEN RejectError(t, "NULL prompt provided")
       ELSE Proceed(t)

run_inference_multi_with_config(t) ==
  \E h \in Handles, q \in {PromptText, nullptr, EmptyStr}, il \in ImageLists :
    LET a == Arg(nullptr, q, 0, nullptr, il[1], il[2], h) IN
    /\ (h # 0 /\ q = PromptText) \/ il = <<NoPaths, 0>>
    /\ h # 0 \/ q = PromptText
    /\ Enter(t, "run_inference_multi_with_config", a)
    /\ IF a.config_handle = 0
       THEN RejectError(t, "NULL config handle")
       ELSE IF a.prompt = nullptr
       THEN RejectError(t, "NULL prompt provided")
       ELSE IF a.image_count > 0 /\ a.image_paths.null
       THEN RejectError(t, "NULL image_paths with image_count > 0")
       ELSE Proceed(t)

check_native_health(t) ==
  \E p \in {ModelDir, nullptr, EmptyStr} :
    LET a == Arg(p, nullptr, 0, nullptr, NoPaths, 0, 0) IN
    /\ Enter(t, "check_native_health", a)
    /\ IF a.model_path = nullptr \/ strlen(a.model_path) = 0
       THEN RejectCode(t, -1)
       ELSE Proceed(t)

create_config(t) ==
  \E p \in {ModelDir, nullptr, EmptyStr} :
    LET a == Arg(p, nullptr, 0, nullptr, NoPaths, 0, 0) IN
    /\ Enter(t, "create_config", a)
    /\ IF a.model_path = nullptr \/ strlen(a.model_path) = 0
       THEN /\ pc' = [pc EXCEPT ![t] = "done"]
            /\ g_error_buffer' =
                 set_error(g_error_buffer, t,
                           <<"NULL or empty model_path provided">>)
            /\ ret' = [ret EXCEPT ![t] = RetInt(0)]
            /\ UNCHANGED configs
       ELSE Proceed(t)

\* ------------------------------------------- the configuration calls
\* set_error("literal"); return code;
RejectBoth(t, literal, code) ==
  /\ pc' = [pc EXCEPT ![t] = "done"]
  /\ g_error_buffer' = set_error(g_error_buffer, t, <<literal>>)
  /\ ret' = [ret EXCEPT ![t] = RetInt(code)]
  /\ UNCHANGED configs

ReturnVoid_sets_error(t) ==
  /\ pc' = [pc EXCEPT ![t] = "done"]
  /\ g_error_buffer' = set_error(g_error_buffer, t, <<"NULL config handle">>)
  /\ ret' = [ret EXCEPT ![t] = RetVoid]
  /\ UNCHANGED configs

\* return; (destroy_config with handle 0)
ReturnVoid(t) ==
  /\ pc' = [pc EXCEPT ![t] = "done"]
  /\ ret' = [ret EXCEPT ![t] = RetVoid]
  /\ UNCHANGED <<g_error_buffer, configs>>

\* The arguments pass validation: go on to the engine call.
CallEngine(t) ==
  /\ pc' = [pc EXCEPT ![t] = "engine"]
  /\ ret' = [ret EXCEPT ![t] = NoRet]
  /\ UNCHANGED <<g_error_buffer, configs>>

destroy_config(t) ==
  \E h \in Handles :
    /\ Enter(t, "destroy_config", CfgArg(h, nullptr, nullptr, nullptr))
    /\ IF h = 0 THEN ReturnVoid(t) ELSE CallEngine(t)

config_clear_providers(t) ==
  \E h \in Handles :
    /\ Enter(t, "config_clear_providers", CfgArg(h, nullptr, nullptr, nullptr))
    /\ IF h = 0 THEN RejectBoth(t, "NULL config handle", -1)
       ELSE CallEngine(t)

config_append_provider_null_only(t) ==
  \E h \in Handles, p \in ProviderNames :
    /\ Enter(t, "config_append_provider", CfgArg(h, p, nullptr, nullptr))
    /\ IF h = 0 THEN RejectBoth(t, "NULL config handle", -1)
       ELSE IF p = nullptr
       THEN RejectBoth(t, "NULL or empty provider name", -2)
       ELSE CallEngine(t)

config_append_provider(t) ==
  \E h \in Handles, p \in ProviderNames :
    /\ Enter(t, "config_append_provider", CfgArg(h, p, nullptr, nullptr))
    /\ IF h = 0 THEN RejectBoth(t, "NULL config handle", -1)
       ELSE IF p = nullptr \/ strlen(p) = 0
       THEN RejectBoth(t, "NULL or empty provider name", -2)
       ELSE CallEngine(t)

config_set_provider_option(t) ==
  \E h \in Handles, p \in ProviderNames, k \in OptionKeys, v \in OptionValues :
    /\ Odd(h = 0) + Odd(p # "XNNPACK") + Odd(k = nullptr) + Odd(v = nullptr) <= 1
    /\ Enter(t, "config_set_provider_option", CfgArg(h, p, k, v))
    /\ IF h = 0 THEN RejectBoth(t, "NULL config handle", -1)
       ELSE IF p = nullptr \/ k = nullptr \/ v = nullptr
       THEN RejectBoth(t, "NULL parameter", -2)
       ELSE CallEngine(t)

\* The engine's call on the Configuration: one entry of the log, the error
\* buffer written by check_oga_result, the return code.
ConfigCall(t, op, context, code, changed) ==
  /\ pc[t] = "engine"
  /\ \E out \in {"ok", "err"} :
       /\ log' = [log EXCEPT ![t] = Append(@, Ev(op, out, {}, {}, {}, <<>>))]
       /\ configs' = IF out = "ok" THEN changed ELSE configs
       /\ g_error_buffer' = check_oga_result(g_error_buffer, t, out, context)
       /\ ret' = [ret EXCEPT ![t] =
                    RetInt(IF check_failed(out) THEN code ELSE 1)]
  /\ pc' = [pc EXCEPT ![t] = "done"]
  /\ UNCHANGED <<fn, args, ip, locals, generated_text, generated_count,
                 g_result_buffer, seen_error, abort_at, prior_error, prior_result,
                 globals>>

\* OgaDestroyConfig(config): returns nothing and cannot fail.
OgaDestroyConfig(t) ==
  /\ pc[t] = "engine" /\ fn[t] = "destroy_config"
  /\ log' = [log EXCEPT ![t] =
               Append(@, Ev("OgaDestroyConfig", "ok", {}, {}, {}, <<>>))]
  /\ configs' = [x \in DOMAIN configs \ {args[t].config_handle} |-> configs[x]]
  /\ ret' = [ret EXCEPT ![t] = RetVoid]
  /\ pc' = [pc EXCEPT ![t] = "done"]
  /\ UNCHANGED <<fn, args, ip, locals, generated_text, generated_count,
                 g_result_buffer, g_error_buffer, seen_error, abort_at,
                 prior_error, prior_result, globals>>

\* result = OgaConfigClearProviders(config);
OgaConfigClearProviders(t) ==
  /\ fn[t] = "config_clear_providers"
  /\ ConfigCall(t, "OgaConfigClearProviders", "Clear providers failed", -2,
                [configs EXCEPT ![args[t].config_handle].providers = <<>>])

\* result = OgaConfigAppendProvider(config, provider_name);
OgaConfigAppendProvider(t) ==
  /\ fn[t] = "config_append_provider"
  /\ ConfigCall(t, "OgaConfigAppendProvider", "Append provider failed", -3,
                [configs EXCEPT ![args[t].config_handle].providers =
                   Append(@, args[t].provider_name)])

\* result = OgaConfigSetProviderOption(config, provider_name, key, value);
OgaConfigSetProviderOption(t) ==
  /\ fn[t] = "config_set_provider_option"
  /\ ConfigCall(t, "OgaConfigSetProviderOption", "Set provider option failed",
                -3,
                [configs EXCEPT ![args[t].config_handle].options =
                   @ \cup {<<args[t].provider_name, args[t].key,
                             args[t].value>>}])

\* ----------------------------------------------- the acquisition chain
CurrentStep(t) == Chain(fn[t], args[t])[ip[t]]

\* What one entry of the log says about a step of the chain.
StepEvent(s, out, loc) ==
  [Ev(s.op, out, IF out = "ok" /\ s.makes # NoKind THEN {s.makes} ELSE {},
      UsedBy(s, loc), {}, <<>>)
     EXCEPT !.num = s.num,
            !.result = IF out # "err" THEN "none"
                       ELSE IF s.result = "dropped" THEN "leaked"
                       ELSE "released"]

\* A step of the chain whose `if` is not taken: the call goes on to the next
\* step, or to the generation loop after the last one.
ChainStepOk(t) ==
  /\ pc[t] = "chain"
  /\ \E out \in Outcomes(CurrentStep(t)) :
       LET s == CurrentStep(t)
           last == ip[t] = Len(Chain(fn[t], args[t]))
       IN /\ ~StepFailed(s, out)
          /\ log' = [log EXCEPT ![t] =
                       IF s.kind = "check" THEN @
                       ELSE Append(@, StepEvent(s, out, locals[t]))]
          /\ locals' = [locals EXCEPT ![t] =
                          IF out = "ok" /\ s.makes # NoKind
                          THEN @ \cup {s.makes} ELSE @]
          /\ configs' = IF out = "ok" /\ s.makes = "config"
                        THEN configs @@ (NewHandle :> NewConfig) ELSE configs
          /\ ret' = [ret EXCEPT ![t] =
                       IF out = "ok" /\ s.makes = "config"
                       THEN RetInt(NewHandle) ELSE @]
          /\ ip' = [ip EXCEPT ![t] = @ + 1]
          /\ pc' = [pc EXCEPT ![t] = IF last THEN AfterChain(fn[t]) ELSE "chain"]
  /\ UNCHANGED <<fn, args, generated_text, generated_count, g_result_buffer,
                 g_error_buffer, seen_error, abort_at, prior_error, prior_result,
                 globals>>

\* A step of the chain whose `if` is taken: check_oga_result has written the
\* error buffer if the engine gave a message, the cleanup of that branch runs,
\* and the call returns.
ChainStepFail(t) ==
  /\ pc[t] = "chain"
  /\ \E out \in Outcomes(CurrentStep(t)) :
       LET s == CurrentStep(t)
           checked == IF s.kind = "engine"
                      THEN check_oga_result(g_error_buffer, t, out, s.ctx)
                      ELSE g_error_buffer
       IN /\ StepFailed(s, out)
          /\ log' = [log EXCEPT ![t] =
                       Append(@, StepEvent(s, out, locals[t]))
                       \o Releases(s.cleanup, locals[t])]
          /\ configs' = AfterReleases(configs, Releases(s.cleanup, locals[t]),
                                      args[t].config_handle)
          /\ abort_at' = [abort_at EXCEPT ![t] = Len(log[t]) + 1]
          /\ g_error_buffer' =
               CASE s.how = "buffer" -> set_error(checked, t, checked[t])
                 [] s.how = "literal" -> set_error(checked, t, <<s.msg>>)
                 [] s.how = "code" -> checked
          /\ ret' = [ret EXCEPT ![t] =
                       IF s.how = "code" THEN RetInt(s.code)
                       ELSE RetError(g_error_buffer'[t])]
          /\ pc' = [pc EXCEPT ![t] = "done"]
  /\ UNCHANGED <<fn, args, ip, locals, generated_text, generated_count,
                 g_result_buffer, seen_error, prior_error, prior_result,
                 globals>>

\* ------------------------------------------------ the generation loop
Fragment(i) == <<ToString(i)>>

\* while (!OgaGenerator_IsDone(generator))
OgaGenerator_IsDone(t) ==
  /\ pc[t] = "loop"
  /\ \E done \in IF generated_count[t] >= MaxTokens THEN {TRUE} ELSE BOOLEAN :
       /\ log' = [log EXCEPT ![t] =
                    Append(@, Ev("OgaGenerator_IsDone",
                                 IF done THEN "done" ELSE "more",
                                 {}, {"generator"}, {}, <<>>))]
       /\ pc' = [pc EXCEPT ![t] = IF done THEN "cleanup" ELSE "generate"]
  /\ UNCHANGED <<fn, args, ip, locals, generated_text, generated_count,
                 g_result_buffer, g_error_buffer, ret, seen_error, configs,
                 abort_at, prior_error, prior_result,
                 globals>>

OgaGenerator_GenerateNextToken_discards(t) ==
  /\ pc[t] = "generate"
  /\ \E out \in {"ok", "err"} :
       /\ log' = [log EXCEPT ![t] =
                    Append(@, Ev("OgaGenerator_GenerateNextToken", out,
                                 {}, {"generator"}, {}, <<>>))]
       /\ g_error_buffer' =
            check_oga_result(g_error_buffer, t, out, "Generate next token failed")
       /\ generated_text' = [generated_text EXCEPT ![t] =
                               IF check_failed(out) THEN <<>> ELSE @]
       /\ pc' = [pc EXCEPT ![t] =
                   IF check_failed(out) THEN "cleanup" ELSE "tokens"]
  /\ UNCHANGED <<fn, args, ip, locals, generated_count,
                 g_result_buffer, ret, seen_error, configs, abort_at,
                 prior_error, prior_result, globals>>

\* result = OgaGenerator_GenerateNextToken(generator);
\* if (check_oga_result(result, "Generate next token failed")) break;
OgaGenerator_GenerateNextToken(t) ==
  /\ pc[t] = "generate"
  /\ \E out \in {"ok", "err"} :
       /\ log' = [log EXCEPT ![t] =
                    Append(@, Ev("OgaGenerator_GenerateNextToken", out,
                                 {}, {"generator"}, {}, <<>>))]
       /\ g_error_buffer' =
            check_oga_result(g_error_buffer, t, out, "Generate next token failed")
       /\ pc' = [pc EXCEPT ![t] =
                   IF check_failed(out) THEN "cleanup" ELSE "tokens"]
  /\ UNCHANGED <<fn, args, ip, locals, generated_text, generated_count,
                 g_result_buffer, ret, seen_error, configs, abort_at,
                 prior_error, prior_result, globals>>

OgaGenerator_GetNextTokens_continues(t) ==
  /\ pc[t] = "tokens"
  /\ \E out \in {"ok", "err", "zero"} :
       /\ log' = [log EXCEPT ![t] =
                    Append(@, Ev("OgaGenerator_GetNextTokens", out,
                                 {}, {"generator"}, {}, <<>>))]
       /\ g_error_buffer' =
            check_oga_result(g_error_buffer, t, out, "Get next tokens failed")
       /\ pc' = [pc EXCEPT ![t] =
                   IF check_failed(out) THEN "loop"
                   ELSE IF out = "zero" THEN "cleanup" ELSE "decode"]
  /\ UNCHANGED <<fn, args, ip, locals, generated_text, generated_count,
                 g_result_buffer, ret, seen_error, configs, abort_at,
                 prior_error, prior_result, globals>>

OgaGenerator_GetNextTokens_any_count(t) ==
  /\ pc[t] = "tokens"
  /\ \E out \in {"ok", "err", "zero"} :
       /\ log' = [log EXCEPT ![t] =
                    Append(@, Ev("OgaGenerator_GetNextTokens", out,
                                 {}, {"generator"}, {}, <<>>))]
       /\ g_error_buffer' =
            check_oga_result(g_error_buffer, t, out, "Get next tokens failed")
       /\ pc' = [pc EXCEPT ![t] =
                   IF check_failed(out) THEN "cleanup" ELSE "decode"]
  /\ UNCHANGED <<fn, args, ip, locals, generated_text, generated_count,
                 g_result_buffer, ret, seen_error, configs, abort_at,
                 prior_error, prior_result, globals>>

OgaGenerator_GetNextTokens_blocks(t) ==
  /\ pc[t] = "tokens"
  /\ \E out \in {"ok", "err", "zero"} :
       /\ log' = [log EXCEPT ![t] =
                    Append(@, Ev("OgaGenerator_GetNextTokens", out,
                                 {}, {"generator"}, {}, <<>>))]
       /\ g_error_buffer' =
            check_oga_result(g_error_buffer, t, out, "Get next tokens failed")
       /\ pc' = [pc EXCEPT ![t] =
                   IF check_failed(out) THEN "cleanup"
                   ELSE IF out = "zero" THEN "blocked" ELSE "decode"]
  /\ UNCHANGED <<fn, args, ip, locals, generated_text, generated_count,
                 g_result_buffer, ret, seen_error, configs, abort_at,
                 prior_error, prior_result, globals>>

\* result = OgaGenerator_GetNextTokens(generator, &tokens, &token_count);
\* if (check_oga_result(result, "Get next tokens failed") || token_count == 0)
\*   break;
OgaGenerator_GetNextTokens(t) ==
  /\ pc[t] = "tokens"
  /\ \E out \in {"ok", "err", "zero"} :
       /\ log' = [log EXCEPT ![t] =
                    Append(@, Ev("OgaGenerator_GetNextTokens", out,
                                 {}, {"generator"}, {}, <<>>))]
       /\ g_error_buffer' =
            check_oga_result(g_error_buffer, t, out, "Get next tokens failed")
       /\ pc' = [pc EXCEPT ![t] =
                   IF check_failed(out) \/ out = "zero"
                   THEN "cleanup" ELSE "decode"]
  /\ UNCHANGED <<fn, args, ip, locals, generated_text, generated_count,
                 g_result_buffer, ret, seen_error, configs, abort_at,
                 prior_error, prior_result, globals>>

OgaTokenizerStreamDecode_breaks(t) ==
  /\ pc[t] = "decode"
  /\ \E out \in {"ok", "err", "null"} :
       LET token_text == IF out = "ok" THEN Fragment(generated_count[t] + 1)
                         ELSE <<>>
       IN /\ log' = [log EXCEPT ![t] =
                       Append(@, Ev("OgaTokenizerStreamDecode", out,
                                    {}, {"stream"}, {}, token_text))]
          /\ g_error_buffer' =
               check_oga_result(g_error_buffer, t, out, "Token decode failed")
          /\ generated_text' = [generated_text EXCEPT ![t] =
                                  IF ~check_failed(out) /\ out # "null"
                                  THEN @ \o token_text ELSE @]
          /\ pc' = [pc EXCEPT ![t] = IF out = "ok" THEN "loop" ELSE "cleanup"]
  /\ generated_count' = [generated_count EXCEPT ![t] = @ + 1]
  /\ UNCHANGED <<fn, args, ip, locals, g_result_buffer, ret, seen_error,
                 configs, abort_at, prior_error, prior_result,
                 globals>>

\* result = OgaTokenizerStreamDecode(stream, tokens[0], &token_text);
\* if (!check_oga_result(result, "Token decode failed") && token_text != nullptr)
\*   generated_text += token_text;
\* generated_count++;
OgaTokenizerStreamDecode(t) ==
  /\ pc[t] = "decode"
  /\ \E out \in {"ok", "err", "null"} :
       LET token_text == IF out = "ok" THEN Fragment(generated_count[t] + 1)
                         ELSE <<>>
       IN /\ log' = [log EXCEPT ![t] =
                       Append(@, Ev("OgaTokenizerStreamDecode", out,
                                    {}, {"stream"}, {}, token_text))]
          /\ g_error_buffer' =
               check_oga_result(g_error_buffer, t, out, "Token decode failed")
          /\ generated_text' = [generated_text EXCEPT ![t] =
                                  IF ~check_failed(out) /\ out # "null"
                                  THEN @ \o token_text ELSE @]
  /\ generated_count' = [generated_count EXCEPT ![t] = @ + 1]
  /\ pc' = [pc EXCEPT ![t] = "loop"]
  /\ UNCHANGED <<fn, args, ip, locals, g_result_buffer, ret, seen_error,
                 configs, abort_at, prior_error, prior_result,
                 globals>>

\* ------------------------------------------------------------ teardown
\* The cleanup at the end of the entry point and its return statement.
Cleanup(t) ==
  /\ pc[t] = "cleanup"
  /\ log' = [log EXCEPT ![t] = @ \o Releases(Teardown(fn[t]), locals[t])]
  /\ configs' = AfterReleases(configs, Releases(Teardown(fn[t]), locals[t]),
                              args[t].config_handle)
  /\ g_result_buffer' =
       IF fn[t] \in InferenceFns
       THEN set_result(g_result_buffer, t, generated_text[t])
       ELSE g_result_buffer
  /\ ret' = [ret EXCEPT ![t] =
               CASE fn[t] \in InferenceFns -> RetResult(g_result_buffer'[t])
                 [] fn[t] = "check_native_health" -> RetInt(1)
                 [] OTHER -> @]
  /\ pc' = [pc EXCEPT ![t] = "done"]
  /\ UNCHANGED <<fn, args, ip, locals, generated_text, generated_count,
                 g_error_buffer, seen_error, abort_at, prior_error, prior_result,
                 globals>>

\* return g_error_buffer.c_str(), called once the call has returned.
get_last_error(t) ==
  /\ pc[t] = "done"
  /\ ~seen_error[t].valid
  /\ seen_error' = [seen_error EXCEPT ![t] =
                      [valid |-> TRUE, str |-> g_error_buffer[t]]]
  /\ UNCHANGED <<pc, fn, args, ip, locals, generated_text, generated_count,
                 g_result_buffer, g_error_buffer, ret, configs, log, abort_at,
                 prior_error, prior_result, globals>>

\* ------------------------------------------------------------ shutdown
TotalCalls(calls) == calls["A"] + calls["B"]

\* void shutdown_onnx_genai(), called by a thread that is not inside
\* another entry point.
shutdown_onnx_genai(t) ==
  /\ pc[t] \in {"idle", "done"}
  /\ TotalCalls(shutdown_calls) < MaxShutdowns
  /\ shutdown_calls' = [shutdown_calls EXCEPT ![t] = @ + 1]
  /\ return_pc' = [return_pc EXCEPT ![t] = pc[t]]
  /\ pc' = [pc EXCEPT ![t] = "lock"]
  /\ UNCHANGED <<percall, g_init_mutex, g_initialized, g_debug_initialized,
                 process_log>>

\* std::lock_guard<std::mutex> lock(g_init_mutex): blocks while another
\* thread holds the mutex.
lock_guard(t) ==
  /\ pc[t] = "lock"
  /\ g_init_mutex = "free"
  /\ g_init_mutex' = t
  /\ pc' = [pc EXCEPT ![t] = "shutdown"]
  /\ UNCHANGED <<percall, g_initialized, g_debug_initialized, process_log,
                 return_pc, shutdown_calls>>

OgaShutdown_unconditional(t) ==
  /\ pc[t] = "shutdown"
  /\ g_init_mutex = t
  /\ process_log' = Append(process_log, [op |-> "OgaShutdown", thread |-> t])
  /\ g_initialized' = FALSE
  /\ g_init_mutex' = "free"
  /\ pc' = [pc EXCEPT ![t] = return_pc[t]]
  /\ UNCHANGED <<percall, g_debug_initialized, return_pc, shutdown_calls>>

\* if (g_initialized) { OgaShutdown(); g_initialized = false; }
\* and the return, which releases the lock.
OgaShutdown(t) ==
  /\ pc[t] = "shutdown"
  /\ g_init_mutex = t
  /\ IF g_initialized
     THEN /\ process_log' =
               Append(process_log, [op |-> "OgaShutdown", thread |-> t])
          /\ g_initialized' = FALSE
     ELSE UNCHANGED <<process_log, g_initialized>>
  /\ g_init_mutex' = "free"
  /\ pc' = [pc EXCEPT ![t] = return_pc[t]]
  /\ UNCHANGED <<percall, g_debug_initialized, return_pc, shutdown_calls>>

\* --------------------------------------------------- specification
\* What the two buffers of a thread can hold when a call is entered: nothing
\* (a fresh thread), or what earlier calls on the thread left there: the
\* message of a call rejected for a NULL argument, the message a failed decode
\* left behind, and the text of a call that produced one fragment.
PriorErrors ==
  { <<>>, <<"ERROR: ", "NULL model_path or prompt provided">> }

PriorResults == { <<>>, Fragment(1) }

InitWith(e, r) ==
  /\ pc = [u \in Threads |-> "idle"]
  /\ fn = [u \in Threads |-> "none"]
  /\ args = [u \in Threads |-> NoArgs]
  /\ ip = [u \in Threads |-> 1]
  /\ locals = [u \in Threads |-> {}]
  /\ generated_text = [u \in Threads |-> <<>>]
  /\ generated_count = [u \in Threads |-> 0]
  /\ g_result_buffer = r
  /\ g_error_buffer = e
  /\ ret = [u \in Threads |-> NoRet]
  /\ seen_error = [u \in Threads |-> NotSeen]
  /\ configs = (LiveConfig :> NewConfig)
  /\ log = [u \in Threads |-> <<>>]
  /\ abort_at = [u \in Threads |-> 0]
  /\ prior_error = e
  /\ prior_result = r
  /\ g_init_mutex = "free"
  /\ g_initialized = FALSE
  /\ g_debug_initialized = FALSE
  /\ process_log = <<>>
  /\ return_pc = [u \in Threads |-> "idle"]
  /\ shutdown_calls = [u \in Threads |-> 0]

Only(t, v) == [u \in Threads |-> IF u = t THEN v ELSE <<>>]

Init ==
  \E e \in PriorErrors, r \in PriorResults :
    InitWith(Only(Caller, e), Only(Caller, r))

Next ==
  \/ init_debug_features(Caller)
  \/ install_signal_handlers(Caller)
  \/ run_text_inference(Caller)
  \/ run_inference(Caller)
  \/ run_inference_multi(Caller)
  \/ run_inference_with_config(Caller)
  \/ run_inference_multi_with_config(Caller)
  \/ check_native_health(Caller)
  \/ create_config(Caller)
  \/ destroy_config(Caller)
  \/ config_clear_providers(Caller)
  \/ config_append_provider(Caller)
  \/ config_set_provider_option(Caller)
  \/ OgaDestroyConfig(Caller)
  \/ OgaConfigClearProviders(Caller)
  \/ OgaConfigAppendProvider(Caller)
  \/ OgaConfigSetProviderOption(Caller)
  \/ ChainStepOk(Caller)
  \/ ChainStepFail(Caller)
  \/ OgaGenerator_IsDone(Caller)
  \/ OgaGenerator_GenerateNextToken(Caller)
  \/ OgaGenerator_GetNextTokens(Caller)
  \/ OgaTokenizerStreamDecode(Caller)
  \/ Cleanup(Caller)
  \/ get_last_error(Caller)

Spec == Init /\ [][Next]_vars

\* Every engine operation returns and the caller goes on to its next
\* statement: a step that can be taken is eventually taken.
SpecLive == Init /\ [][Next]_vars /\ WF_vars(Next)

\* Two threads, each making a text inference call that leaves the length
\* budget to the model default, interleaved step by step.
\* Before the calls, thread B's last call failed and thread A's succeeded.
InitMT ==
  InitWith(Only("B", <<"ERROR: ", "NULL model_path or prompt provided">>),
           Only("A", Fragment(1)))

NextMT ==
  \E t \in Threads :
    \/ run_text_inference(t) /\ args'[t].max_length = 0
    \/ ChainStepOk(t)
    \/ ChainStepFail(t)
    \/ OgaGenerator_IsDone(t)
    \/ OgaGenerator_GenerateNextToken(t)
    \/ OgaGenerator_GetNextTokens(t)
    \/ OgaTokenizerStreamDecode(t)
    \/ Cleanup(t)
    \/ get_last_error(t)

SpecMT == InitMT /\ [][NextMT]_vars

\* Two fresh threads, each checking the library's health and calling
\* shutdown_onnx_genai before or after that, interleaved step by step.
InitSD == InitWith(Only("A", <<>>), Only("A", <<>>))

NextSD ==
  \E t \in Threads :
    \/ init_debug_features(t)
    \/ install_signal_handlers(t)
    \/ check_native_health(t)
    \/ ChainStepOk(t)
    \/ ChainStepFail(t)
    \/ Cleanup(t)
    \/ shutdown_onnx_genai(t)
    \/ lock_guard(t)
    \/ OgaShutdown(t)

SpecSD == InitSD /\ [][NextSD]_vars

\* One thread making one call of any entry point, with calls of
\* shutdown_onnx_genai before and after it.
NextRB ==
  \/ init_debug_features(Caller)
  \/ install_signal_handlers(Caller)
  \/ run_text_inference(Caller)
  \/ run_inference(Caller)
  \/ run_inference_multi(Caller)
  \/ run_inference_with_config(Caller)
  \/ run_inference_multi_with_config(Caller)
  \/ check_native_health(Caller)
  \/ create_config(Caller)
  \/ destroy_config(Caller)
  \/ config_clear_providers(Caller)
  \/ config_append_provider(Caller)
  \/ config_set_provider_option(Caller)
  \/ OgaDestroyConfig(Caller)
  \/ OgaConfigClearProviders(Caller)
  \/ OgaConfigAppendProvider(Caller)
  \/ OgaConfigSetProviderOption(Caller)
  \/ ChainStepOk(Caller)
  \/ ChainStepFail(Caller)
  \/ OgaGenerator_IsDone(Caller)
  \/ OgaGenerator_GenerateNextToken(Caller)
  \/ OgaGenerator_GetNextTokens(Caller)
  \/ OgaTokenizerStreamDecode(Caller)
  \/ Cleanup(Caller)
  \/ get_last_error(Caller)
  \/ shutdown_onnx_genai(Caller)
  \/ lock_guard(Caller)
  \/ OgaShutdown(Caller)

SpecRB == Init /\ [][NextRB]_vars

\* ===================================================================
\* Reading the log
\* ===================================================================
RECURSIVE MadeSeq(_)
\* The kinds of object the engine built, in the order it built them.
MadeSeq(l) ==
  IF l = <<>> THEN <<>>
  ELSE (IF Head(l).made = {} THEN <<>> ELSE <<CHOOSE k \in Head(l).made : TRUE>>)
       \o MadeSeq(Tail(l))

RECURSIVE FreedSeq(_)
\* The kinds of object the call released, in the order it released them.
FreedSeq(l) ==
  IF l = <<>> THEN <<>>
  ELSE (IF Head(l).freed = {} THEN <<>> ELSE <<CHOOSE k \in Head(l).freed : TRUE>>)
       \o FreedSeq(Tail(l))

\* The objects that are live before entry i of the log.
LiveBefore(l, i) ==
  {k \in Kinds : \E j \in 1..(i - 1) :
     /\ k \in l[j].made
     /\ \A m \in (j + 1)..(i - 1) : k \notin l[m].freed}

NoDuplicates(s) == \A i, j \in 1..Len(s) : s[i] = s[j] => i = j

OpsOf(l) == {l[i].op : i \in 1..Len(l)}

ReachedLoop(t) == "OgaGenerator_IsDone" \in OpsOf(log[t])

Returned(t) == pc[t] = "done" /\ fn[t] \in InferenceFns

\* ===================================================================
\* C1: when acquisition step k fails, the call releases exactly what steps
\* 1..k-1 acquired, in reverse order of acquisition, each once; it releases
\* nothing of step k or later, does not retry the step and attempts no later
\* step.
\* ===================================================================
C1_FailureReleasesPrefix ==
  \A t \in Threads :
    (Returned(t) /\ abort_at[t] > 0) =>
      LET p == abort_at[t]
          before == SubSeq(log[t], 1, p - 1)
          after == SubSeq(log[t], p + 1, Len(log[t]))
      IN /\ log[t][p].out \in {"err", "null", "bad"}
         /\ log[t][p].made = {}
         /\ FreedSeq(before) = <<>>
         /\ FreedSeq(after) = Reverse(MadeSeq(before))
         /\ NoDuplicates(FreedSeq(after))
         /\ \A i \in 1..Len(after) : after[i].op = "OgaDestroy"

C1_Witness ==
  \E t \in Threads :
    /\ Returned(t) /\ fn[t] = "run_inference_multi"
    /\ abort_at[t] > 0
    /\ log[t][abort_at[t]].op = "OgaCreateGenerator"
    /\ log[t][abort_at[t]].out = "null"
    /\ {"images", "image_path_array", "params"} \subseteq locals[t]
    /\ Len(FreedSeq(log[t])) = 7

\* ===================================================================
\* C2: on every path that reaches the generation loop, the resources are
\* released in exactly the reverse of the order in which the call acquired
\* them, the decode stream first and the model last, and a resource the call
\* did not acquire (image batch, image path array) is not released.
\* ===================================================================
C2_TeardownReversesAcquisition ==
  \A t \in Threads :
    (Returned(t) /\ ReachedLoop(t)) =>
      LET made == MadeSeq(log[t])
          freed == FreedSeq(log[t])
      IN /\ freed = Reverse(made)
         /\ Head(freed) = "stream"
         /\ freed[Len(freed)] = "model"
         /\ \A k \in {"images", "image_path_array"} :
              k \notin Range(made) => k \notin Range(freed)

C2_Witness ==
  \E t \in Threads :
    /\ Returned(t) /\ fn[t] = "run_inference_multi_with_config"
    /\ \E i \in 1..Len(log[t]) :
         /\ log[t][i].op = "OgaGenerator_GenerateNextToken"
         /\ log[t][i].out = "err"
    /\ "images" \notin locals[t]
    /\ Len(FreedSeq(log[t])) = 7

\* ===================================================================
\* C3: every engine operation is given only objects the call has acquired
\* and not yet released, no object is released twice (or released without
\* having been acquired), and when an inference entry point returns none of
\* the objects it acquired is still live.
\* ===================================================================
C3_UsedOnlyWhileLive ==
  \A t \in Threads :
    /\ \A i \in 1..Len(log[t]) :
         /\ log[t][i].used \subseteq LiveBefore(log[t], i)
         /\ log[t][i].freed \subseteq LiveBefore(log[t], i)
         /\ log[t][i].made \cap LiveBefore(log[t], i) = {}
    /\ Returned(t) => LiveBefore(log[t], Len(log[t]) + 1) = {}

C3_Witness ==
  \E t \in Threads :
    /\ Returned(t) /\ fn[t] = "run_inference"
    /\ "images" \in locals[t]
    /\ \E i \in 1..Len(log[t]) :
         /\ log[t][i].op = "OgaTokenizerStreamDecode"
         /\ log[t][i].used = {"stream"}
    /\ \E i \in 1..Len(log[t]) :
         /\ log[t][i].op = "OgaProcessorProcessImages"
         /\ log[t][i].used = {"processor", "images"}
    /\ Len(FreedSeq(log[t])) = 8

\* ===================================================================
\* C4: a call whose required model path or prompt is NULL or the empty
\* string returns the entry point's null-input sentinel at once and requests
\* nothing from the engine.
\* ===================================================================
NeedsPath == {"check_native_health", "run_text_inference", "run_inference",
              "run_inference_multi", "create_config"}

NeedsPrompt == InferenceFns

Missing(v) == v = nullptr \/ v = EmptyStr

RequiredMissing(t) ==
  \/ fn[t] \in NeedsPath /\ Missing(args[t].model_path)
  \/ fn[t] \in NeedsPrompt /\ Missing(args[t].prompt)

NullInputSentinel(t) ==
  CASE fn[t] \in InferenceFns ->
         ret[t].kind = "error" /\ Len(ret[t].str) = 2
    [] fn[t] = "check_native_health" -> ret[t] = RetInt(-1)
    [] fn[t] = "create_config" -> ret[t] = RetInt(0)
    [] OTHER -> FALSE

C4_NullOrEmptyRejected ==
  \A t \in Threads :
    (pc[t] # "idle" /\ RequiredMissing(t)) =>
      /\ log[t] = <<>>
      /\ pc[t] = "done" => NullInputSentinel(t)

\* ===================================================================
\* C5: an inference call that fails at validation or at an acquisition step
\* returns a string that begins with "ERROR: " and is what get_last_error
\* returns right afterwards; a call whose validation and acquisition succeed
\* returns the accumulated text, which is what the result buffer holds.
\* ===================================================================
RECURSIVE TextOfLog(_)
\* The fragments the decode stream returned, concatenated in order.
TextOfLog(l) ==
  IF l = <<>> THEN <<>>
  ELSE (IF Head(l).op = "OgaTokenizerStreamDecode" /\ Head(l).out = "ok"
        THEN Head(l).text ELSE <<>>) \o TextOfLog(Tail(l))

C5_ReturnedString ==
  \A t \in Threads :
    Returned(t) =>
      IF ~ReachedLoop(t)
      THEN /\ ret[t].kind = "error"
           /\ Len(ret[t].str) > 0 /\ Head(ret[t].str) = "ERROR: "
           /\ ret[t].str = g_error_buffer[t]
           /\ seen_error[t].valid => seen_error[t].str = ret[t].str
      ELSE /\ ret[t].kind = "result"
           /\ ret[t].str = TextOfLog(log[t])
           /\ ret[t].str = g_result_buffer[t]

C5_Witness ==
  \E t \in Threads :
    /\ Returned(t) /\ ~ReachedLoop(t)
    /\ abort_at[t] > 0 /\ log[t][abort_at[t]].out = "err"
    /\ seen_error[t].valid
    /\ prior_error[t] # <<>>

\* ===================================================================
\* C6: the message of a call that fails at acquisition step k contains the
\* context string of step k and nothing of another step or an earlier call,
\* however the step fails and whatever the error channel held before.
\* ===================================================================
C6_ErrorNamesFailedStep ==
  \A t \in Threads :
    (Returned(t) /\ abort_at[t] > 0) =>
      LET s == CurrentStep(t)
      IN /\ ret[t].kind = "error"
         /\ ret[t].str = g_error_buffer[t]
         /\ s.ctx \in Range(ret[t].str)
         /\ Range(ret[t].str) \subseteq {"ERROR: ", s.ctx, ": ", EngineMsg}

\* ===================================================================
\* C7: when requesting the next token fails after m tokens, the loop stops
\* at once, the call returns as a normal result the concatenation of the
\* fragments decoded for those m tokens, the failure is in the error channel
\* and the resources are released in reverse order.
\* ===================================================================
TokenRequestFailed(t, i) ==
  /\ log[t][i].op = "OgaGenerator_GenerateNextToken"
  /\ log[t][i].out = "err"

C7_PartialTextOnTokenFailure ==
  \A t \in Threads : \A i \in 1..Len(log[t]) :
    TokenRequestFailed(t, i) =>
      /\ pc[t] \in {"cleanup", "done"}
      /\ \A j \in (i + 1)..Len(log[t]) : log[t][j].op = "OgaDestroy"
      /\ g_error_buffer[t] = <<"Generate next token failed", ": ", EngineMsg>>
      /\ pc[t] = "done" =>
           /\ ret[t].kind = "result"
           /\ ret[t].str = TextOfLog(SubSeq(log[t], 1, i - 1))
           /\ FreedSeq(log[t]) = Reverse(MadeSeq(log[t]))

C7_Witness ==
  \E t \in Threads : \E i \in 1..Len(log[t]) :
    /\ TokenRequestFailed(t, i)
    /\ Returned(t)
    /\ ret[t].str = Fragment(1)
    /\ prior_error[t] # <<>>

\* ===================================================================
\* C8: the text of a call that reaches the loop is the in-order
\* concatenation of the fragments the decode stream returned; a failed decode
\* (or a null fragment) skips that fragment only, and the loop goes on to ask
\* the generator again.
\* ===================================================================
IsDecode(e) == e.op = "OgaTokenizerStreamDecode"

C8_TextIsConcatenationOfFragments ==
  \A t \in Threads :
    /\ generated_text[t] = TextOfLog(log[t])
    /\ (Returned(t) /\ ReachedLoop(t)) =>
         ret[t] = RetResult(TextOfLog(log[t]))
    /\ \A i \in 1..Len(log[t]) :
         IsDecode(log[t][i]) =>
           IF i < Len(log[t]) THEN log[t][i + 1].op = "OgaGenerator_IsDone"
           ELSE pc[t] = "loop"

C8_Witness ==
  \E t \in Threads :
    /\ Returned(t)
    /\ \E i, j \in 1..Len(log[t]) :
         /\ i < j
         /\ IsDecode(log[t][i]) /\ log[t][i].out = "err"
         /\ IsDecode(log[t][j]) /\ log[t][j].out = "ok"
    /\ ret[t] = RetResult(Fragment(2))

\* ===================================================================
\* C9: after an inference call that completes successfully, get_last_error
\* returns the message of the most recent failing call on the thread (the
\* successful call does not change it), or the empty string if none failed.
\* ===================================================================
CompletedSuccessfully(t) ==
  /\ Returned(t)
  /\ ret[t].kind = "result"
  /\ \E i \in 1..Len(log[t]) :
       log[t][i].op = "OgaGenerator_IsDone" /\ log[t][i].out = "done"

C9_SuccessKeepsLastError ==
  \A t \in Threads :
    CompletedSuccessfully(t) =>
      /\ g_error_buffer[t] = prior_error[t]
      /\ seen_error[t].valid => seen_error[t].str = prior_error[t]

\* ===================================================================
\* C10: the result buffer and the error channel are per thread: a step
\* of a call made by one thread never changes the result string, the error
\* channel or the get_last_error value of the other thread.
\* ===================================================================
Moved(u) ==
  \/ pc'[u] # pc[u]
  \/ log'[u] # log[u]
  \/ seen_error'[u] # seen_error[u]

Observed(t) ==
  <<g_result_buffer[t], g_error_buffer[t], ret[t], seen_error[t]>>

C10_BuffersArePerThread ==
  [][\A t \in Threads : \A u \in Threads \ {t} :
       Moved(u) => Observed(t)' = Observed(t)]_vars

C10_Witness ==
  /\ Returned("A") /\ Returned("B")
  /\ ret["A"] = RetResult(Fragment(1) \o Fragment(2))
  /\ ret["B"].kind = "error"
  /\ g_error_buffer["A"] = prior_error["A"]
  /\ g_error_buffer["B"] = <<"ERROR: ", "Model creation failed", ": ", EngineMsg>>
  /\ g_result_buffer["B"] = <<>>
  /\ seen_error["A"].valid /\ seen_error["B"].valid

\* ===================================================================
\* C11: create_config returns a non-zero handle exactly when the engine
\* created a Configuration, and 0 on every failure (NULL or empty path,
\* engine error, no object); 0 is never the handle of a created Configuration.
\* ===================================================================
ConfigBuilt(t) ==
  \E i \in 1..Len(log[t]) :
    log[t][i].op = "OgaCreateConfig" /\ log[t][i].made = {"config"}

C11_HandleIffConfigCreated ==
  \A t \in Threads :
    (fn[t] = "create_config" /\ pc[t] = "done") =>
      /\ ret[t].kind = "int"
      /\ ret[t].int # 0 <=> ConfigBuilt(t)
      /\ ConfigBuilt(t) =>
           /\ ret[t].int \in DOMAIN configs
           /\ ret[t].int # LiveConfig
      /\ ~ConfigBuilt(t) =>
           /\ ret[t].int = 0
           /\ DOMAIN configs = {LiveConfig}

C11_Witness ==
  \E t \in Threads :
    /\ fn[t] = "create_config" /\ pc[t] = "done"
    /\ ConfigBuilt(t)
    /\ ret[t].int \in DOMAIN configs \ {0, LiveConfig}

\* ===================================================================
\* C12: whenever check_native_health, create_config or one of the three
\* config_* mutators returns its failure sentinel (a negative code, handle 0),
\* the call has written through set_error a message, prefixed "ERROR: ", whose
\* context names the failing step, and get_last_error returns it.
\* ===================================================================
SentinelFns == {"check_native_health", "create_config",
                "config_clear_providers", "config_append_provider",
                "config_set_provider_option"}

FailureSentinel(t) ==
  /\ ret[t].kind = "int"
  /\ IF fn[t] = "create_config" THEN ret[t].int = 0 ELSE ret[t].int < 0

\* The context strings the steps of each of these entry points have.
ContextsOf(f) ==
  CASE f = "check_native_health" ->
         {"NULL or empty model_path provided", "Model creation failed",
          "Tokenizer creation failed"}
    [] f = "create_config" ->
         {"NULL or empty model_path provided", "Config creation failed"}
    [] f = "config_clear_providers" ->
         {"NULL config handle", "Clear providers failed"}
    [] f = "config_append_provider" ->
         {"NULL config handle", "NULL or empty provider name",
          "Append provider failed"}
    [] f = "config_set_provider_option" ->
         {"NULL config handle", "NULL parameter", "Set provider option failed"}
    [] OTHER -> {}

C12_SentinelComesWithError ==
  \A t \in Threads :
    (fn[t] \in SentinelFns /\ pc[t] = "done" /\ FailureSentinel(t)) =>
      /\ Len(g_error_buffer[t]) >= 2
      /\ g_error_buffer[t][1] = "ERROR: "
      /\ g_error_buffer[t][2] \in ContextsOf(fn[t])
      /\ seen_error[t].valid => seen_error[t].str = g_error_buffer[t]

\* ===================================================================
\* C13: config_clear_providers, config_append_provider and
\* config_set_provider_option return 1 exactly when the engine mutation was
\* invoked and succeeded, and a negative code otherwise; with handle 0 or a
\* NULL string (or an empty provider name for append) they return a negative
\* code without invoking the engine, and the Configuration is unchanged.
\* ===================================================================
MutatorFns == {"config_clear_providers", "config_append_provider",
               "config_set_provider_option"}

ConfigOpOf(f) ==
  CASE f = "config_clear_providers" -> "OgaConfigClearProviders"
    [] f = "config_append_provider" -> "OgaConfigAppendProvider"
    [] f = "config_set_provider_option" -> "OgaConfigSetProviderOption"

BadMutatorArgs(f, a) ==
  \/ a.config_handle = 0
  \/ f = "config_append_provider" /\ Missing(a.provider_name)
  \/ f = "config_set_provider_option"
       /\ nullptr \in {a.provider_name, a.key, a.value}

C13_MutatorsReturnCodes ==
  \A t \in Threads :
    (fn[t] \in MutatorFns /\ pc[t] = "done") =>
      LET invoked == log[t] # <<>>
          succeeded == invoked /\ log[t][1].out = "ok"
      IN /\ ret[t].kind = "int"
         /\ ret[t].int = 1 <=> succeeded
         /\ ret[t].int # 1 => ret[t].int < 0
         /\ invoked => Len(log[t]) = 1 /\ log[t][1].op = ConfigOpOf(fn[t])
         /\ BadMutatorArgs(fn[t], args[t]) =>
              /\ ret[t].int < 0
              /\ ~invoked
              /\ configs = (LiveConfig :> NewConfig)

C13_Witness ==
  \E t \in Threads :
    /\ fn[t] = "config_append_provider" /\ pc[t] = "done"
    /\ ret[t] = RetInt(1)
    /\ configs[LiveConfig].providers = <<"cpu", "XNNPACK">>

\* ===================================================================
\* C14: destroy_config with handle 0 releases nothing and touches neither the
\* error channel nor the result buffer; with a non-zero handle it releases
\* exactly that Configuration, once; no other entry point releases a
\* Configuration.
\* ===================================================================
ReleasesConfig(e) == e.op = "OgaDestroyConfig" \/ "config" \in e.freed

C14_AfterDestroy ==
  \A t \in Threads :
    /\ (fn[t] = "destroy_config" /\ pc[t] = "done") =>
         IF args[t].config_handle = 0
         THEN log[t] = <<>> /\ configs = (LiveConfig :> NewConfig)
         ELSE /\ Len(log[t]) = 1 /\ log[t][1].op = "OgaDestroyConfig"
              /\ DOMAIN configs = {LiveConfig} \ {args[t].config_handle}
    /\ fn[t] # "destroy_config" =>
         \A i \in 1..Len(log[t]) : ~ReleasesConfig(log[t][i])

C14_DestroyStep ==
  \A t \in Threads :
    (fn'[t] = "destroy_config" /\ pc'[t] # pc[t]) =>
      /\ g_result_buffer' = g_result_buffer
      /\ g_error_buffer' = g_error_buffer

C14_DestroyConfigReleasesOnlyItsConfig ==
  /\ []C14_AfterDestroy
  /\ []((\A t \in Threads : fn[t] # "destroy_config") =>
          LiveConfig \in DOMAIN configs)
  /\ [][C14_DestroyStep]_vars

C14_Witness ==
  \E t \in Threads :
    /\ fn[t] = "destroy_config" /\ pc[t] = "done"
    /\ args[t].config_handle = LiveConfig
    /\ DOMAIN configs = {}
    /\ g_error_buffer[t] # <<>> /\ g_result_buffer[t] # <<>>

\* ===================================================================
\* C15: run_inference_with_config and run_inference_multi_with_config never
\* release or mutate the Configuration they are given: when the call has
\* returned, with text or with an error at any step, the Configuration is
\* live with the provider list and options it had.
\* ===================================================================
WithConfigFns == {"run_inference_with_config",
                  "run_inference_multi_with_config"}

C15_ConfigSurvivesInference ==
  \A t \in Threads :
    (fn[t] \in WithConfigFns /\ pc[t] # "idle") =>
      /\ configs = (LiveConfig :> NewConfig)
      /\ \A i \in 1..Len(log[t]) :
           /\ ~ReleasesConfig(log[t][i])
           /\ log[t][i].op \notin {ConfigOpOf(f) : f \in MutatorFns}

C15_Witness ==
  \E t \in Threads :
    /\ Returned(t) /\ fn[t] = "run_inference_with_config"
    /\ args[t].config_handle = LiveConfig
    /\ ReachedLoop(t)
    /\ ret[t] = RetResult(Fragment(1) \o Fragment(2))
    /\ configs[LiveConfig].providers = <<"cpu">>

\* ===================================================================
\* C16: check_native_health returns 1 exactly when the Model and the
\* Tokenizer were both built, -1 for a NULL or empty path (nothing attempted),
\* -2 when the Model build fails, -3 when the Tokenizer build fails, and no
\* other value; each resource it built is released exactly once, the
\* tokenizer before the model.
\* ===================================================================
Built(t, op) ==
  \E i \in 1..Len(log[t]) : log[t][i].op = op /\ log[t][i].out = "ok"

Refused(t, op) ==
  \E i \in 1..Len(log[t]) : log[t][i].op = op /\ log[t][i].out # "ok"

NoImageCall(t) ==
  \/ /\ fn[t] \in {"run_inference", "run_inference_with_config"}
     /\ Missing(args[t].image_path)
  \/ /\ fn[t] \in {"run_inference_multi", "run_inference_multi_with_config"}
     /\ args[t].image_count <= 0

ImageOps == {"OgaLoadImage", "OgaLoadImages", "OgaCreateStringArray",
             "OgaCreateStringArrayFromStrings", "OgaStringArrayAddString",
             "image_paths[i] == nullptr"}

ImageKinds == {"images", "image_path_array"}

WithoutImages(a) ==
  [a EXCEPT !.image_path = nullptr, !.image_paths = NoPaths, !.image_count = 0]

C17_NoImageIsNotAnError ==
  \A t \in Threads :
    (NoImageCall(t) /\ pc[t] # "idle") =>
      /\ Chain(fn[t], args[t]) = Chain(fn[t], WithoutImages(args[t]))
      /\ \A i \in 1..Len(Chain(fn[t], args[t])) :
           Chain(fn[t], args[t])[i].op \notin ImageOps
      /\ \A i \in 1..Len(log[t]) :
           /\ log[t][i].op \notin ImageOps
           /\ ImageKinds \cap
                (log[t][i].made \cup log[t][i].used \cup log[t][i].freed) = {}
           /\ log[t][i].op = "OgaProcessorProcessImages" =>
                log[t][i].used = {"processor"}
      /\ (pc[t] = "done" /\ log[t] = <<>>) =>
           \/ args[t].prompt = nullptr
           \/ fn[t] \in WithConfigFns /\ args[t].config_handle = 0
           \/ fn[t] \notin WithConfigFns /\ args[t].model_path = nullptr

C17_Witness ==
  \E t \in Threads :
    /\ Returned(t) /\ fn[t] = "run_inference"
    /\ args[t].image_path = EmptyStr
    /\ Built(t, "OgaProcessorProcessImages")
    /\ ret[t] = RetResult(Fragment(1) \o Fragment(2))
    /\ Len(FreedSeq(log[t])) = 7

\* ===================================================================
\* C18: in the multi-image calls the processor is invoked with an image
\* batch only if all image_count paths were collected and loaded; if
\* collecting or loading one of them fails the call aborts with an error, the
\* processor is never invoked, and no batch or path array survives the call.
\* ===================================================================
MultiFns == {"run_inference_multi", "run_inference_multi_with_config"}

Added(t, i) ==
  Cardinality({j \in 1..(i - 1) :
                 /\ log[t][j].op = "OgaStringArrayAddString"
                 /\ log[t][j].out = "ok"})

BuiltBefore(t, op, i) ==
  \E j \in 1..(i - 1) : log[t][j].op = op /\ log[t][j].out = "ok"

AllCollected(t, i) ==
  /\ BuiltBefore(t, "OgaLoadImages", i)
  /\ IF fn[t] = "run_inference_multi"
     THEN BuiltBefore(t, "OgaCreateStringArrayFromStrings", i)
     ELSE /\ BuiltBefore(t, "OgaCreateStringArray", i)
          /\ Added(t, i) = args[t].image_count

C18_AllImagesOrNone ==
  \A t \in Threads :
    (fn[t] \in MultiFns /\ pc[t] # "idle" /\ args[t].image_count > 0) =>
      /\ \A i \in 1..Len(log[t]) :
           /\ log[t][i].op = "OgaProcessorProcessImages" =>
                /\ "images" \in log[t][i].used
                /\ AllCollected(t, i)
           /\ (log[t][i].op \in ImageOps /\ log[t][i].out # "ok") =>
                /\ abort_at[t] = i
                /\ pc[t] = "done"
                /\ ret[t].kind = "error" /\ Head(ret[t].str) = "ERROR: "
                /\ "OgaProcessorProcessImages" \notin OpsOf(log[t])
      /\ pc[t] = "done" => LiveBefore(log[t], Len(log[t]) + 1) = {}

C18_Witness ==
  \E t \in Threads :
    /\ Returned(t) /\ fn[t] = "run_inference_multi_with_config"
    /\ args[t].image_count = 2
    /\ abort_at[t] > 0
    /\ log[t][abort_at[t]].op = "OgaStringArrayAddString"
    /\ Added(t, abort_at[t]) = 1
    /\ FreedSeq(log[t]) = <<"image_path_array", "tokenizer", "processor",
                             "model">>

\* ===================================================================
\* C19: in run_inference_multi and run_inference_multi_with_config an
\* invalid image argument (a positive image_count with a NULL path array, or
\* a NULL entry among the first image_count paths) is rejected at input
\* validation: the call returns an "ERROR: " string having requested nothing
\* from the engine.
\* ===================================================================
InvalidImages(t) ==
  /\ fn[t] \in MultiFns
  /\ args[t].image_count > 0
  /\ \/ args[t].image_paths.null
     \/ \E i \in 1..args[t].image_count : args[t].image_paths.at[i] = nullptr

C19_InvalidImagesRejectedAtValidation ==
  \A t \in Threads :
    (pc[t] # "idle" /\ InvalidImages(t)) =>
      /\ log[t] = <<>>
      /\ pc[t] = "done" =>
           ret[t].kind = "error" /\ Head(ret[t].str) = "ERROR: "

\* ===================================================================
\* C20: in each of the four multimodal entry points a default length budget
\* (max_length) is set on the Generator Parameters after they are built and
\* before the Generator is created.
\* ===================================================================
MultimodalFns == InferenceFns \ {"run_text_inference"}

C20_DefaultLengthBudgetSet ==
  \A t \in Threads :
    fn[t] \in MultimodalFns =>
      \A i \in 1..Len(log[t]) :
        log[t][i].op = "OgaCreateGenerator" =>
          \E j \in 1..(i - 1) :
            /\ log[t][j].op = "OgaGeneratorParamsSetSearchNumber"
            /\ BuiltBefore(t, "OgaCreateGeneratorParams", j)

\* ===================================================================
\* C21: run_text_inference sets the length budget on the Generator
\* Parameters to max_length exactly when max_length > 0, after the parameters
\* are built and before the Generator is built; for max_length <= 0 it sets
\* no budget.
\* ===================================================================
BudgetSets(t) ==
  {i \in 1..Len(log[t]) : log[t][i].op = "OgaGeneratorParamsSetSearchNumber"}

Attempted(t, op) == \E i \in 1..Len(log[t]) : log[t][i].op = op

AttemptedBefore(t, op, i) == \E j \in 1..(i - 1) : log[t][j].op = op

C21_TextBudgetIffPositive ==
  \A t \in Threads :
    fn[t] = "run_text_inference" =>
      /\ args[t].max_length <= 0 => BudgetSets(t) = {}
      /\ (args[t].max_length > 0 /\ Attempted(t, "OgaCreateGenerator")) =>
           Cardinality(BudgetSets(t)) = 1
      /\ \A i \in BudgetSets(t) :
           /\ log[t][i].num = args[t].max_length
           /\ log[t][i].used = {"params"}
           /\ BuiltBefore(t, "OgaCreateGeneratorParams", i)
           /\ ~AttemptedBefore(t, "OgaCreateGenerator", i)

C21_Witness ==
  \E t \in Threads :
    /\ Returned(t) /\ fn[t] = "run_text_inference"
    /\ args[t].max_length = 16
    /\ \E i \in BudgetSets(t) : log[t][i].num = 16
    /\ Built(t, "OgaCreateGenerator")

\* ===================================================================
\* C22: shutdown_onnx_genai is idempotent under any interleaving: once a
\* call has returned the process is not initialized, however many calls were
\* made; each invocation of OgaShutdown consumes an initialization, so there
\* is at most one per initialization; and a call made when nothing is
\* initialized changes nothing.
\* ===================================================================
InShutdown(t) == pc[t] \in {"lock", "shutdown"}

ShutdownsReturned ==
  TotalCalls(shutdown_calls) - Cardinality({t \in Threads : InShutdown(t)})

ShutdownInvocations ==
  {i \in 1..Len(process_log) : process_log[i].op = "OgaShutdown"}

C22_ShutdownIdempotent ==
  /\ [](ShutdownsReturned >= 1 => ~g_initialized)
  /\ [](\A t \in Threads : pc[t] = "shutdown" <=> g_init_mutex = t)
  /\ [][ShutdownInvocations' # ShutdownInvocations =>
          /\ g_initialized /\ ~g_initialized'
          /\ Cardinality(ShutdownInvocations') =
               Cardinality(ShutdownInvocations) + 1]_vars
  /\ [][\A t \in Threads :
          (pc[t] = "shutdown" /\ pc'[t] # "shutdown" /\ ~g_initialized) =>
            /\ UNCHANGED <<percall, g_initialized, process_log>>
            /\ pc'[t] = return_pc[t]]_vars

C22_Witness ==
  /\ pc["A"] = "shutdown" /\ shutdown_calls["A"] = 2
  /\ pc["B"] = "lock" /\ shutdown_calls["B"] = 1
  /\ \E i \in 1..Len(log["B"]) : log["B"][i].made # {}

\* ===================================================================
\* C23: once an entry point has built engine resources, a call of
\* shutdown_onnx_genai invokes OgaShutdown.
\* ===================================================================
UsedLibrary(t) ==
  \E i \in 1..Len(log[t]) : log[t][i].out = "ok" /\ log[t][i].made # {}

\* The thread's call of shutdown_onnx_genai, made after its own entry point
\* returned, has returned.
ShutdownAfterUse(t) ==
  /\ UsedLibrary(t)
  /\ shutdown_calls[t] >= 1 /\ return_pc[t] = "done" /\ pc[t] = "done"

C23_ShutdownInvokesOgaShutdown ==
  \A t \in Threads : ShutdownAfterUse(t) => ShutdownInvocations # {}

\* ===================================================================
\* C24: every inference call that has been entered eventually returns to its
\* caller, with the generated text or an "ERROR: " string, and when it has
\* returned every resource it acquired has been released.
\* ===================================================================
InCall(t) == fn[t] \in InferenceFns /\ pc[t] \notin {"idle", "done"}

LiveAtEnd(t) == LiveBefore(log[t], Len(log[t]) + 1)

ReturnedClean(t) ==
  /\ Returned(t)
  /\ \/ ret[t].kind = "result"
     \/ ret[t].kind = "error" /\ Head(ret[t].str) = "ERROR: "
  /\ LiveAtEnd(t) = {}

C24_CallsRunToCompletion ==
  /\ \A t \in Threads : InCall(t) ~> ReturnedClean(t)
  /\ [](\A t \in Threads : Returned(t) => ReturnedClean(t))

C24_Witness ==
  \E t \in Threads :
    /\ ReturnedClean(t) /\ ret[t].kind = "result"
    /\ generated_count[t] = MaxTokens
    /\ Cardinality({i \in 1..Len(log[t]) : log[t][i].made # {}}) >= 5

\* ===================================================================
\* C25: a call through a Configuration performs the same acquisitions, by
\* resource kind, the same length-budget setting, the same input attachment
\* and the same releases as the call through a path, on the success path and
\* on every failure path; only the way the Model is built differs.
\* ===================================================================
PlainOf(f) ==
  IF f = "run_inference_with_config" THEN "run_inference"
  ELSE "run_inference_multi"

MadeUpTo(chain, i) == {chain[j].makes : j \in 1..i} \ {NoKind}

\* What a step contributes: the kind it builds, the budget it sets, whether
\* it attaches the input, whether its failure aborts the call and what the
\* call then releases.
StepProfile(chain, i) ==
  [made |-> chain[i].makes,
   budget |-> IF chain[i].op = "OgaGeneratorParamsSetSearchNumber"
              THEN chain[i].num ELSE 0,
   attach |-> chain[i].op = "OgaGenerator_SetInputs",
   fatal |-> chain[i].fatal,
   released |-> FreedSeq(Releases(chain[i].cleanup, MadeUpTo(chain, i - 1)))]

ChainProfile(chain) ==
  SelectSeq([i \in 1..Len(chain) |-> StepProfile(chain, i)],
            LAMBDA p : p.made # NoKind \/ p.budget # 0 \/ p.attach)

TeardownProfile(f, chain) ==
  FreedSeq(Releases(Teardown(f), MadeUpTo(chain, Len(chain))))

SameAsPlain(f, a) ==
  /\ ChainProfile(Chain(f, a)) = ChainProfile(Chain(PlainOf(f), a))
  /\ TeardownProfile(f, Chain(f, a)) =
       TeardownProfile(PlainOf(f), Chain(PlainOf(f), a))

C25_ConfigCallsMatchPathCalls ==
  \A t \in Threads :
    (fn[t] \in WithConfigFns /\ Returned(t) /\ log[t] # <<>>) =>
      SameAsPlain(fn[t], args[t])

\* ===================================================================
\* C26: the order of the acquisition steps of an inference call.
\* As the design states it: the Generator Parameters are built before the
\* prompt is fused into the Named Tensor Bundle or tokenized into the Token
\* Sequence, which happens before the Generator is built, which is built
\* before the Decode Stream.
\* As the calls perform it: the prompt is fused or tokenized first, then the
\* Generator Parameters are built, then the Generator; the input is attached
\* to the Generator, and the Decode Stream is built last.
\* ===================================================================
InputOps == {"OgaProcessorProcessImages", "OgaTokenizerEncode"}

AttachOps == {"OgaGenerator_SetInputs", "OgaGenerator_AppendTokenSequences"}

InputReadyBefore(t, i) == \E op \in InputOps : BuiltBefore(t, op, i)

AttachedBefore(t, i) == \E op \in AttachOps : BuiltBefore(t, op, i)

C26_ParamsBeforeInput ==
  \A t \in Threads :
    fn[t] \in InferenceFns =>
      \A i \in 1..Len(log[t]) :
        /\ log[t][i].op \in InputOps =>
             BuiltBefore(t, "OgaCreateGeneratorParams", i)
        /\ log[t][i].op = "OgaCreateGenerator" => InputReadyBefore(t, i)
        /\ log[t][i].op = "OgaCreateTokenizerStream" =>
             BuiltBefore(t, "OgaCreateGenerator", i)

C26_InputBeforeParams ==
  \A t \in Threads :
    fn[t] \in InferenceFns =>
      \A i \in 1..Len(log[t]) :
        /\ log[t][i].op \in InputOps =>
             ~AttemptedBefore(t, "OgaCreateGeneratorParams", i)
        /\ log[t][i].op = "OgaCreateGeneratorParams" => InputReadyBefore(t, i)
        /\ log[t][i].op = "OgaCreateGenerator" =>
             BuiltBefore(t, "OgaCreateGeneratorParams", i)
        /\ log[t][i].op \in AttachOps =>
             BuiltBefore(t, "OgaCreateGenerator", i)
        /\ log[t][i].op = "OgaCreateTokenizerStream" => AttachedBefore(t, i)

C26_Witness ==
  \E t \in Threads :
    /\ Returned(t) /\ fn[t] = "run_text_inference"
    /\ Built(t, "OgaTokenizerEncode") /\ Built(t, "OgaCreateTokenizerStream")

\* ===================================================================
\* C27: the generation loop consults the generator's done predicate before
\* every token request; once the predicate has answered done, or a token
\* request or a token retrieval has failed, the call issues no further token
\* request, token retrieval or decode.
\* ===================================================================
TokenOps == {"OgaGenerator_GenerateNextToken", "OgaGenerator_GetNextTokens",
             "OgaTokenizerStreamDecode"}

LoopOps == TokenOps \cup {"OgaGenerator_IsDone"}

\* Entry i of the log puts the loop in its Done state.
EndsLoop(e) ==
  \/ e.op = "OgaGenerator_IsDone" /\ e.out = "done"
  \/ e.op = "OgaGenerator_GenerateNextToken" /\ e.out = "err"
  \/ e.op = "OgaGenerator_GetNextTokens" /\ e.out = "err"

C27_LoopIsTwoStateMachine ==
  \A t \in Threads :
    fn[t] \in InferenceFns =>
      \A i \in 1..Len(log[t]) :
        /\ log[t][i].op = "OgaGenerator_GenerateNextToken" =>
             /\ i > 1
             /\ log[t][i - 1].op = "OgaGenerator_IsDone"
             /\ log[t][i - 1].out = "more"
        /\ log[t][i].op = "OgaGenerator_GetNextTokens" =>
             /\ log[t][i - 1].op = "OgaGenerator_GenerateNextToken"
             /\ log[t][i - 1].out = "ok"
        /\ log[t][i].op = "OgaTokenizerStreamDecode" =>
             /\ log[t][i - 1].op = "OgaGenerator_GetNextTokens"
             /\ log[t][i - 1].out = "ok"
        /\ EndsLoop(log[t][i]) =>
             \A j \in (i + 1)..Len(log[t]) : log[t][j].op \notin LoopOps

C27_Witness ==
  \E t \in Threads :
    /\ Returned(t)
    /\ \E i \in 1..Len(log[t]) :
         /\ log[t][i].op = "OgaGenerator_GetNextTokens" /\ log[t][i].out = "err"
         /\ i < Len(log[t])
         /\ \E j \in 1..(i - 1) : log[t][j].op = "OgaTokenizerStreamDecode"

\* ===================================================================
\* C28: a token is requested from the Generator only after the input was
\* attached to it and the Decode Stream was built; when attaching the input
\* or building the stream fails, the call returns an error, has requested no
\* token, and has released the Generator and everything acquired before it.
\* ===================================================================
AttachRefused(t) == \E op \in AttachOps : Refused(t, op)

C28_TokensOnlyAfterAttachAndStream ==
  \A t \in Threads :
    fn[t] \in InferenceFns =>
      /\ \A i \in 1..Len(log[t]) :
           log[t][i].op \in LoopOps =>
             /\ AttachedBefore(t, i)
             /\ BuiltBefore(t, "OgaCreateTokenizerStream", i)
      /\ (Returned(t) /\
          (AttachRefused(t) \/ Refused(t, "OgaCreateTokenizerStream"))) =>
           /\ ret[t].kind = "error"
           /\ OpsOf(log[t]) \cap LoopOps = {}
           /\ Built(t, "OgaCreateGenerator")
           /\ FreedSeq(log[t]) = Reverse(MadeSeq(log[t]))
           /\ "generator" \in Range(FreedSeq(log[t]))

C28_Witness ==
  \E t \in Threads :
    /\ Returned(t) /\ AttachRefused(t)
    /\ fn[t] = "run_inference" /\ HasImage(args[t])

\* ===================================================================
\* C29: a call creates and attaches at most one of a Token Sequence and a
\* Named Tensor Bundle: run_text_inference builds no Processor and no Named
\* Tensor Bundle, and the multimodal entry points build no Token Sequence.
\* ===================================================================
KindsMade(t) == Range(MadeSeq(log[t]))

TextOnlyOps == {"OgaCreateSequences", "OgaTokenizerEncode",
                "OgaGenerator_AppendTokenSequences"}

BundleOnlyOps == {"OgaCreateMultiModalProcessor", "OgaProcessorProcessImages",
                  "OgaGenerator_SetInputs"}

C29_OneKindOfInput ==
  \A t \in Threads :
    fn[t] \in InferenceFns =>
      /\ Cardinality(KindsMade(t) \cap {"sequences", "named_tensors"}) <= 1
      /\ fn[t] = "run_text_inference" =>
           /\ OpsOf(log[t]) \cap BundleOnlyOps = {}
           /\ KindsMade(t) \cap {"processor", "named_tensors", "images"} = {}
      /\ fn[t] \in MultimodalFns =>
           /\ OpsOf(log[t]) \cap TextOnlyOps = {}
           /\ "sequences" \notin KindsMade(t)
      /\ \A i \in 1..Len(log[t]) :
           /\ log[t][i].op = "OgaGenerator_AppendTokenSequences" =>
                "sequences" \in log[t][i].used
           /\ log[t][i].op = "OgaGenerator_SetInputs" =>
                "named_tensors" \in log[t][i].used

C29_Witness ==
  \E t \in Threads :
    /\ Returned(t) /\ fn[t] = "run_inference_multi"
    /\ args[t].image_count > 0
    /\ Built(t, "OgaGenerator_SetInputs")
    /\ "named_tensors" \in KindsMade(t)

\* ===================================================================
\* C30: when setting the default length budget fails in a multimodal call,
\* the call does not abort: it goes on to build the Generator, the failure
\* is not written to the error buffer, the engine's result object is
\* released, and the teardown is what it would have been.
\* ===================================================================
BudgetFailures(t) ==
  {i \in BudgetSets(t) : log[t][i].out = "err"}

\* No engine operation of the call other than the budget setting failed.
OnlyBudgetFailed(t) ==
  \A i \in 1..Len(log[t]) :
    \/ log[t][i].out \in {"ok", "more", "done"}
    \/ i \in BudgetSets(t)

C30_BudgetFailureIsNotFatal ==
  \A t \in Threads :
    fn[t] \in MultimodalFns =>
      \A i \in BudgetFailures(t) :
        /\ abort_at[t] # i
        /\ log[t][i].result = "released"
        /\ i < Len(log[t]) => log[t][i + 1].op = "OgaCreateGenerator"
        /\ (i = Len(log[t]) /\ pc[t] = "chain") =>
             g_error_buffer[t] = prior_error[t]
        /\ Returned(t) =>
             /\ i < Len(log[t])
             /\ FreedSeq(log[t]) = Reverse(MadeSeq(log[t]))
             /\ LiveAtEnd(t) = {}
        /\ (Returned(t) /\ OnlyBudgetFailed(t)) =>
             /\ ret[t].kind = "result"
             /\ g_error_buffer[t] = prior_error[t]

C30_Witness ==
  \E t \in Threads :
    /\ Returned(t) /\ fn[t] \in MultimodalFns
    /\ BudgetFailures(t) # {} /\ OnlyBudgetFailed(t)
    /\ Built(t, "OgaCreateGenerator")
    /\ generated_count[t] > 0

\* ===================================================================
\* C31: the one-time setup of init_debug_features (installing the signal
\* handlers, configuring the engine's logging) is performed at most once per
\* process, whatever threads enter the entry points.
\* ===================================================================
DebugSetups ==
  {i \in 1..Len(process_log) : process_log[i].op = "install_signal_handlers"}

C31_DebugSetupAtMostOnce == Cardinality(DebugSetups) <= 1

\* ===================================================================
\* C32: what get_last_error returns is the empty string, or the prefix
\* "ERROR: " followed directly by a context string, the prefix occurring
\* exactly once.
\* ===================================================================
PrefixCount(str) ==
  Cardinality({i \in 1..Len(str) : str[i] = "ERROR: "})

WellFormedError(str) ==
  \/ str = <<>>
  \/ /\ Len(str) >= 2
     /\ Head(str) = "ERROR: "
     /\ PrefixCount(str) = 1

C32_LastErrorIsPrefixedOnce ==
  \A t \in Threads :
    seen_error[t].valid => WellFormedError(seen_error[t].str)

\* ===================================================================
\* C33: the result buffer of a thread holds the text of its last inference
\* call that returned a result: such a call replaces the buffer with exactly
\* its own text, and a call that fails at validation or at an acquisition
\* step, a health check, a configuration call, shutdown_onnx_genai and
\* get_last_error leave the buffer as it was.
\* ===================================================================
ExpectedResult(t) ==
  IF fn[t] \in InferenceFns /\ ret[t].kind = "result"
  THEN generated_text[t]
  ELSE prior_result[t]

C33_ResultBufferFrame ==
  \A t \in Threads : g_result_buffer[t] = ExpectedResult(t)

C33_Witness ==
  \E t \in Threads :
    /\ Returned(t) /\ ret[t].kind = "result"
    /\ prior_result[t] # <<>>
    /\ generated_text[t] # <<>>
    /\ shutdown_calls[t] = 2 /\ pc[t] = "done" /\ return_pc[t] = "done"
    /\ seen_error[t].valid

\* ===================================================================
\* C34: an inference call whose validation, acquisition steps and token
\* requests all succeed, and in which only decodes of single tokens fail,
\* leaves the error buffer of the thread as it was before the call.
\* ===================================================================
OnlyDecodesFailed(t) ==
  \A i \in 1..Len(log[t]) :
    \/ log[t][i].out \in {"ok", "more", "done"}
    \/ log[t][i].op = "OgaTokenizerStreamDecode"

C34_DecodeFailureKeepsErrorBuffer ==
  \A t \in Threads :
    (Returned(t) /\ ret[t].kind = "result" /\ OnlyDecodesFailed(t)) =>
      g_error_buffer[t] = prior_error[t]

\* ===================================================================
\* C35: every result object an engine operation returns to an entry point
\* is released, once, before the entry point returns; none is dropped.
\* ===================================================================
ResultObjects(t) == {i \in 1..Len(log[t]) : log[t][i].out = "err"}

C35_ResultObjectsReleased ==
  \A t \in Threads :
    \A i \in ResultObjects(t) : log[t][i].result = "released"

\* ===================================================================
\* C36: when retrieving the new tokens fails or yields no token, the loop
\* stops at once: nothing is decoded in that iteration, the text accumulated
\* so far is returned as a normal result and every resource is released in
\* reverse order of acquisition; when no token is yielded without an engine
\* error, that iteration does not write the error buffer.
\* ===================================================================
RetrievalStopped(t, i) ==
  /\ log[t][i].op = "OgaGenerator_GetNextTokens"
  /\ log[t][i].out \in {"err", "zero"}

\* Nothing before entry i of the log wrote the error buffer.
NoFailureBefore(t, i) ==
  \A j \in 1..(i - 1) :
    \/ log[t][j].out \in {"ok", "more", "done"}
    \/ j \in BudgetSets(t)

C36_RetrievalFailureStopsLoop ==
  \A t \in Threads : \A i \in 1..Len(log[t]) :
    RetrievalStopped(t, i) =>
      /\ pc[t] \in {"cleanup", "done"}
      /\ \A j \in (i + 1)..Len(log[t]) : log[t][j].op = "OgaDestroy"
      /\ generated_text[t] = TextOfLog(SubSeq(log[t], 1, i - 1))
      /\ (log[t][i].out = "zero" /\ NoFailureBefore(t, i)) =>
           g_error_buffer[t] = prior_error[t]
      /\ log[t][i].out = "err" =>
           g_error_buffer[t] = <<"Get next tokens failed", ": ", EngineMsg>>
      /\ pc[t] = "done" =>
           /\ ret[t].kind = "result"
           /\ ret[t].str = TextOfLog(SubSeq(log[t], 1, i - 1))
           /\ FreedSeq(log[t]) = Reverse(MadeSeq(log[t]))
           /\ LiveAtEnd(t) = {}

C36_Witness ==
  \E t \in Threads : \E i \in 1..Len(log[t]) :
    /\ RetrievalStopped(t, i) /\ log[t][i].out = "zero"
    /\ NoFailureBefore(t, i)
    /\ Returned(t)
    /\ ret[t].str # <<>>

====
